---------------------------- MODULE Spec2Model ----------------------------
(***************************************************************************)
(* A model of the QR symbol encoder of kairos-payments-js (PixQrCode):     *)
(* generateQrMatrix and the functions it calls, byte mode, EC level M.     *)
(* Cells of the module grid are "null" (unset), "true" (dark) or "false"   *)
(* (light); arrays keep the 0-based indices of the source as functions on  *)
(* 0..n-1, growing lists (bits, codewords) are sequences.                  *)
(***************************************************************************)
EXTENDS Integers, Sequences, FiniteSets, TLC

VARIABLES
    pc,          \* the statement of generateQrMatrix about to run
    payload,     \* bytes: the UTF-8 bytes of the data argument
    version,     \* const version (0 before selectVersion returned)
    size,        \* const size
    grid,        \* the module grid, <<>> before it is allocated
    reserved,    \* the reserved mask, <<>> before it is allocated
    codewords,   \* const codewords, <<>> before encodeData returned
    placedBits,  \* bitIdx when placeData returned
    placedAt,    \* for every cell, the index of the codeword bit placeData
                 \* stored in it (-1: none), <<>> before placeData returned
    bestMask,    \* const bestMask (-1 before selectBestMask returned)
    result,      \* what the call gave its caller: nothing yet, the capacity
                 \* error, or the matrix
    GF_EXP,      \* the module-level table GF_EXP (512 entries)
    GF_LOG,      \* the module-level table GF_LOG (256 entries)
    calls,       \* how many calls of generateQrMatrix have been started
    history,     \* the earlier calls: <<payload, result>> pairs
    args,        \* the arguments of a helper called on its own
    out,         \* what the helper returned, one entry per call
    running,     \* PaymentPoller: private running
    timer,       \* PaymentPoller: private timer (0: null, else the handle)
    timeoutTimer,\* PaymentPoller: private timeoutTimer (0: null)
    lastStatus,  \* PaymentPoller: private lastStatus ("null": null)
    countdownInterval, \* createPixQrCode: let countdownInterval (0: null)
    copyTimeout, \* createPixQrCode: let copyTimeout (0: null)
    expired,     \* createPixQrCode: let expired
    armed,       \* the host's timers still armed: [id, fn] records
    timers,      \* how many timer handles the host has handed out
    fetches,     \* fetchStatus() promises not yet settled
    issued,      \* how many fetchStatus() calls have been made
    writes,      \* clipboard.writeText() promises not yet settled
    secondsLeft, \* whole seconds until config.expiresAt (-1: it is past)
    invoked,     \* the callbacks of the config invoked so far, in order
    stopped,     \* stop() has been called and start() has not run since
    destroyed,   \* destroy() has returned
    ops          \* the calls the page has made on the instance, in order

vars == <<pc, payload, version, size, grid, reserved, codewords, placedBits,
          placedAt, bestMask, result, GF_EXP, GF_LOG, calls, history, args, out,
          running, timer, timeoutTimer, lastStatus, countdownInterval,
          copyTimeout, expired, armed, timers, fetches, issued, writes,
          secondsLeft, invoked, stopped, destroyed, ops>>

---------------------------------------------------------------------------
(* Arithmetic helpers standing for JavaScript's operators on small ints.   *)

Min(a, b) == IF a < b THEN a ELSE b

Abs(a) == IF a < 0 THEN -a ELSE a

\* 2^n
RECURSIVE Pow2(_)
Pow2(n) == IF n = 0 THEN 1 ELSE 2 * Pow2(n - 1)

\* (value >> i) & 1
BitAt(value, i) == (value \div Pow2(i)) % 2

\* a ^ b on non-negative integers
RECURSIVE Xor(_, _)
Xor(a, b) ==
    IF a = 0 THEN b
    ELSE IF b = 0 THEN a
    ELSE ((a + b) % 2) + 2 * Xor(a \div 2, b \div 2)

\* a | b on non-negative integers
RECURSIVE Or(_, _)
Or(a, b) ==
    IF a = 0 THEN b
    ELSE IF b = 0 THEN a
    ELSE (IF a % 2 = 1 \/ b % 2 = 1 THEN 1 ELSE 0) + 2 * Or(a \div 2, b \div 2)

\* A for loop: st after body(st, i) has run for i = lo, lo+1, .., hi-1, in
\* that order.  The range is halved, and each half's result evaluated before
\* the next half starts, only to keep the evaluation shallow; st is a record,
\* a function or a sequence.
RECURSIVE For(_, _, _, _)
For(body(_, _), st, lo, hi) ==
    IF hi <= lo THEN st
    ELSE IF hi = lo + 1 THEN body(st, lo)
    ELSE LET mid == (lo + hi) \div 2
             left == For(body, st, lo, mid)
         IN  IF DOMAIN left = DOMAIN left THEN For(body, left, mid, hi) ELSE left

---------------------------------------------------------------------------
(* Version tables, EC level M.                                             *)

capacities ==
    <<14, 26, 42, 62, 84, 106, 122, 152, 180, 213,
      251, 287, 331, 362, 412, 450, 504, 560, 624, 666,
      711, 779, 857, 911, 997, 1059, 1125, 1190, 1264, 1370,
      1452, 1538, 1628, 1722, 1809, 1911, 1989, 2099, 2213, 2331>>

MaxVersion == 40

\* selectVersionFrom, had its comparison been > instead of >=
RECURSIVE selectVersionFromStrict(_, _)
selectVersionFromStrict(v, dataLen) ==
    IF v > MaxVersion THEN 0
    ELSE IF capacities[v] > dataLen THEN v
    ELSE selectVersionFromStrict(v + 1, dataLen)

\* the loop of selectVersion from version v on; 0 stands for the throw
RECURSIVE selectVersionFrom(_, _)
selectVersionFrom(v, dataLen) ==
    IF v > MaxVersion THEN 0
    ELSE IF capacities[v] >= dataLen THEN v
    ELSE selectVersionFrom(v + 1, dataLen)

\* selectVersion, had it fallen back to the largest version instead of
\* throwing
selectVersionClamped(dataLen) ==
    IF selectVersionFrom(1, dataLen) = 0 THEN MaxVersion
    ELSE selectVersionFrom(1, dataLen)

selectVersion(dataLen) == selectVersionFrom(1, dataLen)

\* const size = version * 4 + 17, had the constant been 16
sizeOfShort(v) == v * 4 + 16

\* const size = version * 4 + 17
sizeOf(v) == v * 4 + 17

getAlignmentPositions(v) ==
    IF v <= 1 THEN <<>>
    ELSE << <<>>,
      <<6, 18>>, <<6, 22>>, <<6, 26>>, <<6, 30>>, <<6, 34>>,
      <<6, 22, 38>>, <<6, 24, 42>>, <<6, 26, 46>>, <<6, 28, 50>>, <<6, 30, 54>>,
      <<6, 32, 58>>, <<6, 34, 62>>, <<6, 26, 46, 66>>, <<6, 26, 48, 70>>,
      <<6, 26, 50, 74>>, <<6, 30, 54, 78>>, <<6, 30, 56, 82>>, <<6, 30, 58, 86>>,
      <<6, 34, 62, 90>>, <<6, 28, 50, 72, 94>>, <<6, 26, 50, 74, 98>>,
      <<6, 30, 54, 78, 102>>, <<6, 28, 54, 80, 106>>, <<6, 32, 58, 84, 110>>,
      <<6, 30, 58, 86, 114>>, <<6, 34, 62, 90, 118>>, <<6, 26, 50, 74, 98, 122>>,
      <<6, 30, 54, 78, 102, 126>>, <<6, 26, 52, 78, 104, 130>>,
      <<6, 30, 56, 82, 108, 134>>, <<6, 34, 60, 86, 112, 138>>,
      <<6, 30, 58, 86, 114, 142>>, <<6, 34, 62, 90, 118, 146>>,
      <<6, 30, 54, 78, 102, 126, 150>>, <<6, 24, 50, 76, 102, 128, 154>>,
      <<6, 28, 54, 80, 106, 132, 158>>, <<6, 32, 58, 84, 110, 136, 162>>,
      <<6, 26, 54, 82, 110, 138, 166>>, <<6, 30, 58, 86, 114, 142, 170>> >>[v]

getTotalCodewords(v) ==
    <<26, 44, 70, 100, 134, 172, 196, 242, 292, 346,
      404, 466, 532, 581, 655, 733, 815, 901, 991, 1085,
      1156, 1258, 1364, 1474, 1588, 1706, 1828, 1921, 2051, 2185,
      2323, 2465, 2611, 2761, 2876, 3034, 3196, 3362, 3532, 3706>>[v]

getEcCodewordsPerBlock(v) ==
    <<10, 16, 26, 18, 24, 16, 18, 22, 22, 26,
      30, 22, 22, 24, 24, 28, 28, 26, 26, 26,
      26, 28, 28, 28, 28, 28, 28, 28, 28, 28,
      28, 28, 28, 28, 28, 28, 28, 28, 28, 28>>[v]

getNumBlocks(v) ==
    <<1, 1, 1, 2, 2, 4, 4, 4, 5, 5,
      5, 8, 9, 9, 10, 10, 11, 13, 14, 16,
      17, 17, 18, 20, 21, 23, 25, 26, 28, 29,
      31, 33, 35, 37, 38, 40, 43, 45, 47, 49>>[v]

---------------------------------------------------------------------------
(* Fixed patterns.                                                         *)

Bool(b) == IF b THEN "true" ELSE "false"

\* a fresh size x size array filled with v
NewGrid(n, v) == [r \in 0 .. n - 1 |-> [c \in 0 .. n - 1 |-> v]]

\* grid.length
GridLen(g) == Cardinality(DOMAIN g)

\* placeFinder: the 9x9 window around the 7x7 pattern, clipped to the grid
finderCell(r, c) ==
    LET inOuter == r = 0 \/ r = 6 \/ c = 0 \/ c = 6
        inInner == r >= 2 /\ r <= 4 /\ c >= 2 /\ c <= 4
    IN  Bool((r >= 0 /\ r <= 6 /\ c >= 0 /\ c <= 6) /\ (inOuter \/ inInner))

inFinderWindow(gr, gc, row, col) ==
    gr - row >= -1 /\ gr - row <= 7 /\ gc - col >= -1 /\ gc - col <= 7

placeFinder(g, rv, row, col) ==
    LET n == GridLen(g)
        inRows(gr) == gr - row >= -1 /\ gr - row <= 7
    IN  [grid |-> [gr \in 0 .. n - 1 |->
                     IF inRows(gr)
                     THEN [gc \in 0 .. n - 1 |->
                             IF inFinderWindow(gr, gc, row, col)
                             THEN finderCell(gr - row, gc - col) ELSE g[gr][gc]]
                     ELSE g[gr]],
         reserved |-> [gr \in 0 .. n - 1 |->
                     IF inRows(gr)
                     THEN [gc \in 0 .. n - 1 |->
                             inFinderWindow(gr, gc, row, col) \/ rv[gr][gc]]
                     ELSE rv[gr]]]

\* placeAlignment's first loop: some in-bounds cell of the 5x5 footprint is
\* already reserved
alignmentOverlaps(rv, row, col) ==
    LET n == GridLen(rv)
    IN  \E r \in -2 .. 2 : \E c \in -2 .. 2 :
            LET gr == row + r
                gc == col + c
            IN  /\ ~(gr < 0 \/ gc < 0 \/ gr >= n \/ gc >= n)
                /\ rv[gr][gc]

\* an alignment pattern with dark and light exchanged
alignmentCellInverted(r, c) == Bool(~(Abs(r) = 2 \/ Abs(c) = 2 \/ (r = 0 /\ c = 0)))

alignmentCell(r, c) ==
    LET isEdge == Abs(r) = 2 \/ Abs(c) = 2
        isCenter == r = 0 /\ c = 0
    IN  Bool(isEdge \/ isCenter)

\* placeAlignment that draws the pattern and reserves nothing
placeAlignmentUnreserved(g, rv, row, col) ==
    IF alignmentOverlaps(rv, row, col)
    THEN [grid |-> g, reserved |-> rv]
    ELSE [grid |-> [gr \in DOMAIN g |->
                      IF Abs(gr - row) <= 2
                      THEN [gc \in DOMAIN g[gr] |->
                              IF Abs(gc - col) <= 2
                              THEN alignmentCell(gr - row, gc - col)
                              ELSE g[gr][gc]]
                      ELSE g[gr]],
          reserved |-> rv]

\* placeAlignment: nothing is written when the footprint overlaps a reserved
\* cell; the second loop writes the 25 cells without a bounds check (the
\* centres of getAlignmentPositions are at least 6 from every edge)
placeAlignment(g, rv, row, col) ==
    IF alignmentOverlaps(rv, row, col)
    THEN [grid |-> g, reserved |-> rv]
    ELSE [grid |-> [gr \in DOMAIN g |->
                      IF Abs(gr - row) <= 2
                      THEN [gc \in DOMAIN g[gr] |->
                              IF Abs(gc - col) <= 2
                              THEN alignmentCell(gr - row, gc - col)
                              ELSE g[gr][gc]]
                      ELSE g[gr]],
          reserved |-> [gr \in DOMAIN rv |->
                      IF Abs(gr - row) <= 2
                      THEN [gc \in DOMAIN rv[gr] |->
                              Abs(gc - col) <= 2 \/ rv[gr][gc]]
                      ELSE rv[gr]]]

\* the two nested loops over alignPos of generateQrMatrix; k counts the
\* (row, column) combinations from 0
placeAlignments(g, rv, alignPos) ==
    LET m == Len(alignPos)
        body(st, k) ==
            LET r == alignPos[(k \div m) + 1]
                c == alignPos[(k % m) + 1]
            IN  IF st.reserved[r][c] THEN st
                ELSE placeAlignment(st.grid, st.reserved, r, c)
    IN  For(body, [grid |-> g, reserved |-> rv], 0, m * m)

\* "Place timing patterns": the loop over i = 8 .. size-9
placeTiming(g, rv, n) ==
    LET onRow(st, i) ==
            IF ~st.reserved[6][i]
            THEN [grid |-> [st.grid EXCEPT ![6][i] = Bool(i % 2 = 0)],
                  reserved |-> [st.reserved EXCEPT ![6][i] = TRUE]]
            ELSE st
        onCol(st, i) ==
            IF ~st.reserved[i][6]
            THEN [grid |-> [st.grid EXCEPT ![i][6] = Bool(i % 2 = 0)],
                  reserved |-> [st.reserved EXCEPT ![i][6] = TRUE]]
            ELSE st
        body(st, i) == onCol(onRow(st, i), i)
    IN  For(body, [grid |-> g, reserved |-> rv], 8, n - 8)

\* "Reserve format info areas"
\* the reservation of the format strips, had it taken the whole of row 8 and
\* of column 8
reserveFormatWide(rv, n) ==
    [r \in 0 .. n - 1 |-> [c \in 0 .. n - 1 |-> rv[r][c] \/ r = 8 \/ c = 8]]

reserveFormat(rv, n) ==
    LET body(st, i) ==
            [st EXCEPT ![8][i] = TRUE, ![8][n - 1 - i] = TRUE,
                       ![i][8] = TRUE, ![n - 1 - i][8] = TRUE]
    IN  [For(body, rv, 0, 8) EXCEPT ![8][8] = TRUE]

\* the version areas reserved four cells wide instead of three
reserveVersionWide(rv, n) ==
    LET body(st, k) ==
            LET i == k \div 4
                j == k % 4
            IN  [st EXCEPT ![i][n - 12 + j] = TRUE, ![n - 12 + j][i] = TRUE]
    IN  For(body, rv, 0, 24)

\* "Reserve version info areas": the two nested loops, k = 3 * i + j
reserveVersion(rv, n) ==
    LET body(st, k) ==
            LET i == k \div 3
                j == k % 3
            IN  [st EXCEPT ![i][n - 11 + j] = TRUE, ![n - 11 + j][i] = TRUE]
    IN  For(body, rv, 0, 18)

---------------------------------------------------------------------------
(* GF(256) arithmetic and Reed-Solomon.                                    *)

\* initGaloisField reducing by 0x11B in place of 0x11D
initGaloisField11B ==
    LET first(st, i) ==
            LET x2 == st.x * 2
            IN  [exp |-> [st.exp EXCEPT ![i] = st.x],
                 log |-> [st.log EXCEPT ![st.x] = i],
                 x |-> IF x2 >= 256 THEN Xor(x2, 283) ELSE x2]
        second(st, i) == [st EXCEPT !.exp[i] = st.exp[i - 255]]
    IN  For(second,
            For(first, [exp |-> [i \in 0 .. 511 |-> 0],
                        log |-> [i \in 0 .. 255 |-> 0], x |-> 1], 0, 255),
            255, 512)

\* initGaloisField without its second loop
initGaloisFieldShort ==
    LET first(st, i) ==
            LET x2 == st.x * 2
            IN  [exp |-> [st.exp EXCEPT ![i] = st.x],
                 log |-> [st.log EXCEPT ![st.x] = i],
                 x |-> IF x2 >= 256 THEN Xor(x2, 285) ELSE x2]
    IN  For(first, [exp |-> [i \in 0 .. 511 |-> 0],
                    log |-> [i \in 0 .. 255 |-> 0], x |-> 1], 0, 255)

\* initGaloisField: both tables are zero-filled typed arrays before it
initGaloisField ==
    LET first(st, i) ==
            LET x2 == st.x * 2
            IN  [exp |-> [st.exp EXCEPT ![i] = st.x],
                 log |-> [st.log EXCEPT ![st.x] = i],
                 x |-> IF x2 >= 256 THEN Xor(x2, 285) ELSE x2]
        second(st, i) == [st EXCEPT !.exp[i] = st.exp[i - 255]]
    IN  For(second,
            For(first, [exp |-> [i \in 0 .. 511 |-> 0],
                        log |-> [i \in 0 .. 255 |-> 0], x |-> 1], 0, 255),
            255, 512)

\* gfMul without its test for a zero factor
gfMulUnguarded(a, b) == GF_EXP[GF_LOG[a] + GF_LOG[b]]

\* gfMul, had every earlier call of reedSolomonEncode moved the table on
gfMulShifting(a, b) ==
    IF a = 0 \/ b = 0 THEN 0 ELSE GF_EXP[GF_LOG[a] + GF_LOG[b] + Len(out)]

\* gfMul, had every earlier call of generateQrMatrix moved the table on
gfMulPerCall(a, b) ==
    IF a = 0 \/ b = 0 THEN 0 ELSE GF_EXP[GF_LOG[a] + GF_LOG[b] + calls - 1]

gfMul(a, b) ==
    IF a = 0 \/ b = 0 THEN 0 ELSE GF_EXP[GF_LOG[a] + GF_LOG[b]]

reedSolomonEncode(data, ecLen) ==
    LET \* "Build generator polynomial": newGen[j] ^= gen[j] and
        \* newGen[j + 1] ^= gfMul(gen[j], GF_EXP[i]) for every j
        round(gen, i) ==
            [j \in 1 .. Len(gen) + 1 |->
                Xor(IF j <= Len(gen) THEN gen[j] ELSE 0,
                    IF j > 1 THEN gfMul(gen[j - 1], GF_EXP[i]) ELSE 0)]
        gen == For(round, <<1>>, 0, ecLen)
        \* the division loop: msg[i + j] ^= gfMul(gen[j], coeff) for every j
        divide(msg, i) ==
            LET coeff == msg[i + 1]
            IN  IF coeff # 0
                THEN [k \in 1 .. Len(msg) |->
                        IF k >= i + 1 /\ k <= i + Len(gen)
                        THEN Xor(msg[k], gfMul(gen[k - i], coeff))
                        ELSE msg[k]]
                ELSE msg
        rem == For(divide, data \o [k \in 1 .. ecLen |-> 0], 0, Len(data))
    IN  SubSeq(rem, Len(data) + 1, Len(rem))

---------------------------------------------------------------------------
(* The bit stream and the codeword stream.                                 *)

\* pushBits: numBits bits of value, most significant first (none when
\* numBits <= 0)
pushBits(arr, value, numBits) ==
    arr \o [k \in 1 .. numBits |-> BitAt(value, numBits - k)]

\* "Convert to bytes": byte number b (0-based) of the bit list, a missing bit
\* read as 0
RECURSIVE byteOfBits(_, _, _, _)
byteOfBits(bits, i, j, byte) ==
    IF j >= 8 THEN byte
    ELSE byteOfBits(bits, i, j + 1,
                    2 * byte + (IF i + j + 1 <= Len(bits) THEN bits[i + j + 1] ELSE 0))

\* dataCodewords of encodeData
dataCodewordCount(v) ==
    getTotalCodewords(v) - getEcCodewordsPerBlock(v) * getNumBlocks(v)

\* a character count of 8 bits in every version
countBitsByte(v) == 8

\* const countBits = version <= 9 ? 8 : 16
countBits(v) == IF v <= 9 THEN 8 ELSE 16

\* bits when the loop over data has ended: mode, character count, data
bitsBeforeTerminator(data, v) ==
    LET head == pushBits(pushBits(<<>>, 4, 4), Len(data), countBits(v))
    \* for (const byte of data) pushBits(bits, byte, 8)
    IN  head \o [k \in 1 .. 8 * Len(data) |->
                    BitAt(data[((k - 1) \div 8) + 1], 7 - ((k - 1) % 8))]

\* const terminatorLen = Math.min(4, dataBits - bits.length)
terminatorLen(data, v) ==
    Min(4, dataCodewordCount(v) * 8 - Len(bitsBeforeTerminator(data, v)))

\* the padded data codewords of encodeData (dataBytes)
encodeDataBytes(data, v) ==
    LET dataBits == dataCodewordCount(v) * 8
        terminated == pushBits(bitsBeforeTerminator(data, v), 0, terminatorLen(data, v))
        \* while (bits.length % 8 !== 0) bits.push(0)
        aligned == terminated \o [k \in 1 .. ((8 - (Len(terminated) % 8)) % 8) |-> 0]
        \* while (bits.length < dataBits) pushBits(bits, padWords[padIdx++ % 2], 8)
        padCount == IF Len(aligned) < dataBits
                    THEN (dataBits - Len(aligned) + 7) \div 8 ELSE 0
        bits == aligned \o [k \in 1 .. 8 * padCount |->
                    BitAt(IF ((k - 1) \div 8) % 2 = 0 THEN 236 ELSE 17,
                          7 - ((k - 1) % 8))]
    IN  [b \in 1 .. ((Len(bits) + 7) \div 8) |-> byteOfBits(bits, 8 * (b - 1), 0, 0)]

\* a slice that runs to the end of the array whatever its second argument
sliceToEnd(seq, from, to) == SubSeq(seq, from + 1, Len(seq))

\* Array.prototype.slice(from, to) on a sequence, 0-based, clipped to its end
slice(seq, from, to) == SubSeq(seq, from + 1, Min(to, Len(seq)))

\* "Split into blocks and generate EC": blocksData, blocksEc and the running
\* offset
splitBlocks(dataBytes, v) ==
    LET dataCodewords == dataCodewordCount(v)
        ecCodewords == getEcCodewordsPerBlock(v)
        numBlocks == getNumBlocks(v)
        shortBlockLen == dataCodewords \div numBlocks
        longBlocks == dataCodewords % numBlocks
        body(st, b) ==
            LET blockLen == shortBlockLen + (IF b >= numBlocks - longBlocks THEN 1 ELSE 0)
                block == slice(dataBytes, st.offset, st.offset + blockLen)
            IN  [blocksData |-> Append(st.blocksData, block),
                 blocksEc |-> Append(st.blocksEc, reedSolomonEncode(block, ecCodewords)),
                 offset |-> st.offset + blockLen]
    IN  For(body, [blocksData |-> <<>>, blocksEc |-> <<>>, offset |-> 0], 0, numBlocks)

\* Math.max(...blocks.map(b => b.length)), the blocks from the k-th on
RECURSIVE maxLen(_, _)
maxLen(blocks, k) ==
    IF k >= Len(blocks) THEN Len(blocks[k])
    ELSE LET rest == maxLen(blocks, k + 1)
         IN  IF Len(blocks[k]) > rest THEN Len(blocks[k]) ELSE rest

\* the blocks appended one whole block after the other
interleaveBlockwise(blocks, rounds, into) ==
    LET body(acc, b) == acc \o blocks[b + 1]
    IN  For(body, into, 0, Len(blocks))

\* an interleaving loop: for i in 0 .. rounds-1, for every block in order,
\* push block[i] if the block has one
interleave(blocks, rounds, into) ==
    LET body(acc, i) ==
            LET have == SelectSeq([b \in 1 .. Len(blocks) |-> b],
                                  LAMBDA b : i < Len(blocks[b]))
            IN  acc \o [k \in 1 .. Len(have) |-> blocks[have[k]][i + 1]]
    IN  For(body, into, 0, rounds)

encodeData(data, v) ==
    LET split == splitBlocks(encodeDataBytes(data, v), v)
        dataPart == interleave(split.blocksData, maxLen(split.blocksData, 1), <<>>)
    IN  interleave(split.blocksEc, getEcCodewordsPerBlock(v), dataPart)

---------------------------------------------------------------------------
(* Data placement.                                                         *)

\* the direction of the column pair whose right column is col
isUpward(n, col) ==
    LET pairIndex == (n - 1 - col + (IF col < 6 THEN 1 ELSE 0)) \div 2
    IN  pairIndex % 2 = 0

\* placeData: the grid it leaves and the final bitIdx.  The while loop runs
\* at most size times; an iteration after col has gone below 0 does nothing.
\* placedAt records, next to every write of a codeword bit, which bit it was
\* (-2 once a cell has been written a second time).
placeData(g, rv, cw, n) ==
    LET totalBits == Len(cw) * 8
        \* the body of the two inner loops for the pair at col, k = 2 * row + c
        cell(col, st, k) ==
            LET row == k \div 2
                actualCol == col - (k % 2)
                actualRow == IF isUpward(n, col) THEN n - 1 - row ELSE row
            IN  IF actualCol < 0 \/ rv[actualRow][actualCol] THEN st
                ELSE IF st.bitIdx < totalBits
                THEN LET byteIdx == st.bitIdx \div 8
                         bitOff == 7 - (st.bitIdx % 8)
                     IN  [st EXCEPT !.grid[actualRow][actualCol] =
                                        Bool(BitAt(cw[byteIdx + 1], bitOff) = 1),
                                    !.placedAt[actualRow][actualCol] =
                                        IF @ = -1 THEN st.bitIdx ELSE -2,
                                    !.bitIdx = st.bitIdx + 1]
                ELSE [st EXCEPT !.grid[actualRow][actualCol] = "false"]
        pair(st, t) ==
            IF st.col < 0 THEN st
            ELSE LET col == IF st.col = 6 THEN st.col - 1 ELSE st.col
                     inner(s, k) == cell(col, s, k)
                 IN  [For(inner, st, 0, 2 * n) EXCEPT !.col = col - 2]
    IN  For(pair, [grid |-> g, bitIdx |-> 0, col |-> n - 1,
                   placedAt |-> NewGrid(n, -1)], 0, n)

---------------------------------------------------------------------------
(* Masking and penalty.                                                    *)

shouldMask(mask, row, col) ==
    CASE mask = 0 -> (row + col) % 2 = 0
      [] mask = 1 -> row % 2 = 0
      [] mask = 2 -> col % 3 = 0
      [] mask = 3 -> (row + col) % 3 = 0
      [] mask = 4 -> ((row \div 2) + (col \div 3)) % 2 = 0
      [] mask = 5 -> ((row * col) % 2) + ((row * col) % 3) = 0
      [] mask = 6 -> (((row * col) % 2) + ((row * col) % 3)) % 2 = 0
      [] mask = 7 -> (((row + col) % 2) + ((row * col) % 3)) % 2 = 0
      [] OTHER -> FALSE

\* !cell: null and false give true
Negate(cell) == IF cell = "true" THEN "false" ELSE "true"

\* applyMask without its test of reserved
applyMaskAll(g, rv, mask, n) ==
    [r \in 0 .. n - 1 |-> [c \in 0 .. n - 1 |->
        IF shouldMask(mask, r, c) THEN Negate(g[r][c]) ELSE g[r][c]]]

\* applyMask that skips the test of reserved on the timing row
applyMaskTiming(g, rv, mask, n) ==
    [r \in 0 .. n - 1 |-> [c \in 0 .. n - 1 |->
        IF (~rv[r][c] \/ r = 6) /\ shouldMask(mask, r, c)
        THEN Negate(g[r][c])
        ELSE g[r][c]]]

applyMask(g, rv, mask, n) ==
    [r \in 0 .. n - 1 |-> [c \in 0 .. n - 1 |->
        IF ~rv[r][c] /\ shouldMask(mask, r, c) THEN Negate(g[r][c]) ELSE g[r][c]]]

\* Rule 1 along one line, had cells past the fifth of a run scored nothing
linePenaltyFlat(line, n) ==
    LET body(st, i) ==
            IF line[i] = line[i - 1]
            THEN [count |-> st.count + 1,
                  penalty |-> st.penalty + (IF st.count + 1 = 5 THEN 3 ELSE 0)]
            ELSE [count |-> 1, penalty |-> st.penalty]
    IN  For(body, [count |-> 1, penalty |-> 0], 1, n).penalty

\* Rule 1 along one line (a row or a column of n cells)
linePenalty(line, n) ==
    LET body(st, i) ==
            IF line[i] = line[i - 1]
            THEN [count |-> st.count + 1,
                  penalty |-> st.penalty + (IF st.count + 1 = 5 THEN 3
                                            ELSE IF st.count + 1 > 5 THEN 1 ELSE 0)]
            ELSE [count |-> 1, penalty |-> st.penalty]
    IN  For(body, [count |-> 1, penalty |-> 0], 1, n).penalty

\* Rule 4: Math.floor(Math.abs((dark / total) * 100 - 50) / 5) * 10.  The
\* source computes it in doubles; the percentage is either a multiple of 5,
\* which the doubles give exactly, or at least 5 / total away from one, far
\* more than their rounding error, so the integer quotient is the same number
proportionPenalty(dark, total) ==
    (Abs(100 * dark - 50 * total) \div (5 * total)) * 10

calcPenalty(g, n) ==
    LET rows(st, r) == [penalty |-> st.penalty + linePenalty(g[r], n)]
        cols(st, c) ==
            [penalty |-> st.penalty + linePenalty([r \in 0 .. n - 1 |-> g[r][c]], n)]
        darkRow(st, r) ==
            [dark |-> st.dark + Cardinality({c \in 0 .. n - 1 : g[r][c] = "true"})]
        rule1 == For(cols, For(rows, [penalty |-> 0], 0, n), 0, n).penalty
        dark == For(darkRow, [dark |-> 0], 0, n).dark
    IN  rule1 + proportionPenalty(dark, n * n)

\* one candidate of selectBestMask, had test been the grid itself
maskCandidateInPlace(g, rv, m, n) ==
    LET masked == applyMask(g, rv, m, n)
    IN  [grid |-> masked, test |-> masked]

\* one candidate of selectBestMask: test is grid.map(r => [...r]), a new
\* array of new rows, and the loops flip the cells of test; grid is the
\* caller's grid afterwards
maskCandidate(g, rv, m, n) ==
    [grid |-> g, test |-> applyMask(g, rv, m, n)]

\* the loop of selectBestMask, had its comparison been <= instead of <
RECURSIVE selectBestMaskFromLast(_, _, _, _, _, _)
selectBestMaskFromLast(g, rv, n, m, best, bestPenalty) ==
    IF m >= 8 THEN [bestMask |-> best, grid |-> g]
    ELSE LET mem == maskCandidate(g, rv, m, n)
             penalty == calcPenalty(mem.test, n)
         IN  IF bestPenalty = -1 \/ penalty <= bestPenalty
             THEN selectBestMaskFromLast(mem.grid, rv, n, m + 1, m, penalty)
             ELSE selectBestMaskFromLast(mem.grid, rv, n, m + 1, best, bestPenalty)

\* the loop of selectBestMask from mask m on; bestPenalty -1 stands for
\* Infinity.  The value is the mask returned and the caller's grid as the
\* loop leaves it.
RECURSIVE selectBestMaskFrom(_, _, _, _, _, _)
selectBestMaskFrom(g, rv, n, m, best, bestPenalty) ==
    IF m >= 8 THEN [bestMask |-> best, grid |-> g]
    ELSE LET mem == maskCandidate(g, rv, m, n)
             penalty == calcPenalty(mem.test, n)
         IN  IF bestPenalty = -1 \/ penalty < bestPenalty
             THEN selectBestMaskFrom(mem.grid, rv, n, m + 1, m, penalty)
             ELSE selectBestMaskFrom(mem.grid, rv, n, m + 1, best, bestPenalty)

selectBestMask(g, rv, n) == selectBestMaskFrom(g, rv, n, 0, 0, -1)

---------------------------------------------------------------------------
(* Format and version information.                                         *)

FORMAT_INFO == <<21522, 20773, 24188, 23371, 17913, 16590, 20375, 19104>>

\* hBits and vBits of placeFormatInfo, as <<row, column>> in the order the
\* source indexes the grid with them
hBits ==
    << <<0, 8>>, <<1, 8>>, <<2, 8>>, <<3, 8>>, <<4, 8>>, <<5, 8>>, <<7, 8>>, <<8, 8>>,
       <<8, 7>>, <<8, 5>>, <<8, 4>>, <<8, 3>>, <<8, 2>>, <<8, 1>>, <<8, 0>> >>

vBits(n) ==
    << <<8, n - 1>>, <<8, n - 2>>, <<8, n - 3>>, <<8, n - 4>>,
       <<8, n - 5>>, <<8, n - 6>>, <<8, n - 7>>, <<8, n - 8>>,
       <<n - 7, 8>>, <<n - 6, 8>>, <<n - 5, 8>>, <<n - 4, 8>>,
       <<n - 3, 8>>, <<n - 2, 8>>, <<n - 1, 8>> >>

\* one loop of placeFormatInfo over a strip, from i (0-based) on
RECURSIVE writeStrip(_, _, _, _)
writeStrip(g, strip, info, i) ==
    IF i >= 15 THEN g
    ELSE writeStrip([g EXCEPT ![strip[i + 1][1]][strip[i + 1][2]] =
                        Bool(BitAt(info, 14 - i) = 1)],
                    strip, info, i + 1)

placeFormatInfoOfMask0(g, mask, n) ==
    writeStrip(writeStrip(g, hBits, FORMAT_INFO[1], 0), vBits(n), FORMAT_INFO[1], 0)

placeFormatInfo(g, mask, n) ==
    LET info == FORMAT_INFO[mask + 1]
    IN  writeStrip(writeStrip(g, hBits, info, 0), vBits(n), info, 0)

\* the reduction loop of getVersionInfo from i down to 0
RECURSIVE versionRemainder(_, _)
versionRemainder(rem, i) ==
    IF i < 0 THEN rem
    ELSE versionRemainder(
             IF BitAt(rem, i + 12) = 1 THEN Xor(rem, 7973 * Pow2(i)) ELSE rem,
             i - 1)

\* the version shifted, without the remainder
getVersionInfoUnreduced(v) == v * 4096

getVersionInfo(v) ==
    LET d == v * 4096
    IN  Or(d, versionRemainder(d, 5))

\* the loop of placeVersionInfo writing the upper right block only
RECURSIVE writeVersionBitsUpper(_, _, _, _)
writeVersionBitsUpper(g, versionInfo, n, i) ==
    IF i >= 18 THEN g
    ELSE writeVersionBitsUpper(
             [g EXCEPT ![i \div 3][n - 11 + (i % 3)] = Bool(BitAt(versionInfo, i) = 1)],
             versionInfo, n, i + 1)

\* the loop of placeVersionInfo from i on
RECURSIVE writeVersionBits(_, _, _, _)
writeVersionBits(g, versionInfo, n, i) ==
    IF i >= 18 THEN g
    ELSE LET bit == Bool(BitAt(versionInfo, i) = 1)
             row == i \div 3
             col == n - 11 + (i % 3)
         IN  writeVersionBits(
                 [[g EXCEPT ![row][col] = bit] EXCEPT ![col][row] = bit],
                 versionInfo, n, i + 1)

placeVersionInfo(g, v, n) ==
    IF v < 7 THEN g ELSE writeVersionBits(g, getVersionInfo(v), n, 0)

---------------------------------------------------------------------------
(* Inputs.                                                                 *)

\* "HELLO"
Hello == <<72, 69, 76, 76, 79>>

\* an ASCII payload of len bytes ('0' .. 'z'), one for every seed
AsciiPayload(len, seed) == [i \in 1 .. len |-> 48 + ((seed * i + seed) % 75)]

\* the short payloads: every length up to MaxShortLen, MaxSeed contents each
MaxShortLen == 15
MaxSeed == 4

ShortPayloads ==
    {AsciiPayload(len, seed) : len \in 0 .. MaxShortLen, seed \in 1 .. MaxSeed}

\* 14 bytes, the most version 1 holds
Boundary14 == AsciiPayload(capacities[1], 5)

\* 63 bytes: version 5, the first version with two blocks of different EC
\* data, one byte more than version 4 holds
MultiBlock == AsciiPayload(capacities[4] + 1, 1)

\* the longest payload there is a version for, and one byte more
Longest == AsciiPayload(capacities[MaxVersion], 1)
TooLong == AsciiPayload(capacities[MaxVersion] + 1, 1)

Payloads == ShortPayloads \cup {Hello, Boundary14, MultiBlock, Longest, TooLong}

\* what a later call of the same page may encode
RepeatPayloads == {Hello, TooLong}

\* one payload for every version: as many bytes as the version holds
VersionPayloads == {AsciiPayload(capacities[v], 1) : v \in 1 .. MaxVersion}

\* how many calls of generateQrMatrix one behaviour makes
MaxCalls == 3

---------------------------------------------------------------------------
(* generateQrMatrix, one action per statement group.                       *)

locals == <<version, size, grid, reserved, codewords, placedBits, placedAt, bestMask>>
tables == <<GF_EXP, GF_LOG>>
\* the fields of a PaymentPoller, the variables createPixQrCode closes over
\* and the host they run in (timers, promises, the page)
poller == <<running, timer, timeoutTimer, lastStatus>>
widget == <<countdownInterval, copyTimeout, expired>>
host == <<armed, timers, fetches, issued, writes, secondsLeft, invoked,
          stopped, destroyed, ops>>
components == <<poller, widget, host>>
caller == <<payload, result, calls, history, args, out>>

\* what a call gives its caller
NoResult == [threw |-> FALSE, matrix |-> <<>>]
CapacityError == [threw |-> TRUE, matrix |-> <<>>]
Returned(m) == [threw |-> FALSE, matrix |-> m]

\* the locals of generateQrMatrix before its first statement
Entry ==
    /\ version = 0
    /\ size = 0
    /\ grid = <<>>
    /\ reserved = <<>>
    /\ codewords = <<>>
    /\ placedBits = 0
    /\ placedAt = <<>>
    /\ bestMask = -1
    /\ result = NoResult

\* no PaymentPoller and no PixQrCode has been created
NoComponent ==
    /\ running = FALSE
    /\ timer = 0
    /\ timeoutTimer = 0
    /\ lastStatus = "null"
    /\ countdownInterval = 0
    /\ copyTimeout = 0
    /\ expired = FALSE
    /\ armed = {}
    /\ timers = 0
    /\ fetches = 0
    /\ issued = 0
    /\ writes = 0
    /\ secondsLeft = -1
    /\ invoked = <<>>
    /\ stopped = FALSE
    /\ destroyed = FALSE
    /\ ops = <<>>

\* the module has been loaded: initGaloisField() has run
Loaded ==
    /\ GF_EXP = initGaloisField.exp
    /\ GF_LOG = initGaloisField.log

\* the first call of generateQrMatrix, its data drawn from inputs
FirstCall(inputs) ==
    /\ pc = "selectVersion"
    /\ payload \in inputs
    /\ Entry
    /\ Loaded
    /\ NoComponent
    /\ calls = 1
    /\ history = {}
    /\ args = <<>>
    /\ out = <<>>

Init == FirstCall(Payloads)

\* const version = selectVersion(bytes.length); const size = version * 4 + 17;
\* the throw of selectVersion leaves generateQrMatrix at once
SelectVersion ==
    /\ pc = "selectVersion"
    /\ LET v == selectVersion(Len(payload))
       IN  IF v = 0
           THEN /\ pc' = "threw"
                /\ result' = CapacityError
                /\ UNCHANGED <<version, size>>
           ELSE /\ pc' = "createGrid"
                /\ version' = v
                /\ size' = sizeOf(v)
                /\ UNCHANGED result
    /\ UNCHANGED <<grid, reserved, codewords, placedBits, placedAt, bestMask, tables, components,
                   payload, calls, history, args, out>>

CreateGrid ==
    /\ pc = "createGrid"
    /\ grid' = NewGrid(size, "null")
    /\ reserved' = NewGrid(size, FALSE)
    /\ pc' = "placeFinders"
    /\ UNCHANGED <<version, size, codewords, placedBits, placedAt, bestMask, tables, components, caller>>

PlaceFinders ==
    /\ pc = "placeFinders"
    /\ LET a == placeFinder(grid, reserved, 0, 0)
           b == placeFinder(a.grid, a.reserved, size - 7, 0)
           c == placeFinder(b.grid, b.reserved, 0, size - 7)
       IN  /\ grid' = c.grid
           /\ reserved' = c.reserved
    /\ pc' = "placeAlignment"
    /\ UNCHANGED <<version, size, codewords, placedBits, placedAt, bestMask, tables, components, caller>>

PlaceAlignments ==
    /\ pc = "placeAlignment"
    /\ LET a == placeAlignments(grid, reserved, getAlignmentPositions(version))
       IN  /\ grid' = a.grid
           /\ reserved' = a.reserved
    /\ pc' = "placeTiming"
    /\ UNCHANGED <<version, size, codewords, placedBits, placedAt, bestMask, tables, components, caller>>

PlaceTiming ==
    /\ pc = "placeTiming"
    /\ LET a == placeTiming(grid, reserved, size)
       IN  /\ grid' = a.grid
           /\ reserved' = a.reserved
    /\ pc' = "darkModule"
    /\ UNCHANGED <<version, size, codewords, placedBits, placedAt, bestMask, tables, components, caller>>

DarkModule ==
    /\ pc = "darkModule"
    /\ grid' = [grid EXCEPT ![size - 8][8] = "true"]
    /\ reserved' = [reserved EXCEPT ![size - 8][8] = TRUE]
    /\ pc' = "reserveFormat"
    /\ UNCHANGED <<version, size, codewords, placedBits, placedAt, bestMask, tables, components, caller>>

ReserveFormat ==
    /\ pc = "reserveFormat"
    /\ reserved' = reserveFormat(reserved, size)
    /\ pc' = "reserveVersion"
    /\ UNCHANGED <<version, size, grid, codewords, placedBits, placedAt, bestMask, tables, components, caller>>

ReserveVersion ==
    /\ pc = "reserveVersion"
    /\ reserved' = IF version >= 7 THEN reserveVersion(reserved, size) ELSE reserved
    /\ pc' = "encodeData"
    /\ UNCHANGED <<version, size, grid, codewords, placedBits, placedAt, bestMask, tables, components, caller>>

EncodeData ==
    /\ pc = "encodeData"
    /\ codewords' = encodeData(payload, version)
    /\ pc' = "placeData"
    /\ UNCHANGED <<version, size, grid, reserved, placedBits, placedAt, bestMask, tables, components, caller>>

PlaceData ==
    /\ pc = "placeData"
    /\ LET a == placeData(grid, reserved, codewords, size)
       IN  /\ grid' = a.grid
           /\ placedBits' = a.bitIdx
           /\ placedAt' = a.placedAt
    /\ pc' = "selectBestMask"
    /\ UNCHANGED <<version, size, reserved, codewords, bestMask, tables, components, caller>>

SelectBestMask ==
    /\ pc = "selectBestMask"
    /\ \E returned \in {selectBestMask(grid, reserved, size)} :
           /\ bestMask' = returned.bestMask
           /\ grid' = returned.grid
    /\ pc' = "applyMask"
    /\ UNCHANGED <<version, size, reserved, codewords, placedBits, placedAt, tables, components, caller>>

ApplyMask ==
    /\ pc = "applyMask"
    /\ grid' = applyMask(grid, reserved, bestMask, size)
    /\ pc' = "placeFormatInfo"
    /\ UNCHANGED <<version, size, reserved, codewords, placedBits, placedAt, bestMask, tables, components, caller>>

PlaceFormatInfo ==
    /\ pc = "placeFormatInfo"
    /\ grid' = placeFormatInfo(grid, bestMask, size)
    /\ pc' = "placeVersionInfo"
    /\ UNCHANGED <<version, size, reserved, codewords, placedBits, placedAt, bestMask, tables, components, caller>>

PlaceVersionInfo ==
    /\ pc = "placeVersionInfo"
    /\ grid' = IF version >= 7 THEN placeVersionInfo(grid, version, size) ELSE grid
    /\ pc' = "return"
    /\ UNCHANGED <<version, size, reserved, codewords, placedBits, placedAt, bestMask, tables, components, caller>>

\* return grid.map(row => row.map(cell => cell === true))
Return ==
    /\ pc = "return"
    /\ result' = Returned([r \in DOMAIN grid |->
                               [c \in DOMAIN grid[r] |-> grid[r][c] = "true"]])
    /\ pc' = "done"
    /\ UNCHANGED <<locals, tables, components, payload, calls, history, args, out>>

\* the caller calls generateQrMatrix again, after a return or a throw
NextCall ==
    /\ pc \in {"done", "threw"}
    /\ calls < MaxCalls
    /\ history' = history \cup {<<payload, result>>}
    /\ calls' = calls + 1
    /\ payload' \in RepeatPayloads
    /\ pc' = "selectVersion"
    /\ version' = 0
    /\ size' = 0
    /\ grid' = <<>>
    /\ reserved' = <<>>
    /\ codewords' = <<>>
    /\ placedBits' = 0
    /\ placedAt' = <<>>
    /\ bestMask' = -1
    /\ result' = NoResult
    /\ UNCHANGED <<tables, components, args, out>>

\* one call of generateQrMatrix
Call ==
    \/ SelectVersion
    \/ CreateGrid
    \/ PlaceFinders
    \/ PlaceAlignments
    \/ PlaceTiming
    \/ DarkModule
    \/ ReserveFormat
    \/ ReserveVersion
    \/ EncodeData
    \/ PlaceData
    \/ SelectBestMask
    \/ ApplyMask
    \/ PlaceFormatInfo
    \/ PlaceVersionInfo
    \/ Return

Next == Call \/ NextCall

Spec == Init /\ [][Next]_vars

\* one call for every version
InitVersions == FirstCall(VersionPayloads)

SpecVersions == InitVersions /\ [][Call]_vars

---------------------------------------------------------------------------
(* The helpers called on their own.                                        *)

\* a helper is about to be called with the arguments a
Helper(name, a) ==
    /\ pc = name
    /\ args = a
    /\ out = <<>>
    /\ payload = <<>>
    /\ Entry
    /\ Loaded
    /\ NoComponent
    /\ calls = 0
    /\ history = {}

\* the call returns; the helper may be called again with the same arguments
Returns(name, value, times) ==
    /\ pc = name
    /\ Len(out) < times
    /\ out' = Append(out, value)
    /\ UNCHANGED <<pc, args, payload, locals, result, tables, components, calls, history>>

\* selectVersion(dataLen) for every length up to MaxPayloadLen
MaxPayloadLen == 2333

InitSelect == \E dataLen \in 0 .. MaxPayloadLen : Helper("selectVersion()", <<dataLen>>)

CallSelectVersion == Returns("selectVersion()", selectVersion(args[1]), 1)

SpecSelect == InitSelect /\ [][CallSelectVersion]_vars

\* gfMul(a, b) for every pair of field elements
MaxByte == 255

InitGf == \E a \in 0 .. MaxByte, b \in 0 .. MaxByte : Helper("gfMul()", <<a, b>>)

CallGfMul == Returns("gfMul()", gfMul(args[1], args[2]), 1)

SpecGf == InitGf /\ [][CallGfMul]_vars

\* reedSolomonEncode(data, ecLen), twice, for blocks of up to MaxBlockLen
\* bytes out of BlockBytes and every ecLen up to MaxEcLen
MaxBlockLen == 3
MaxEcLen == 10
BlockBytes == {0, 1, 72, 255}

Blocks == UNION {[1 .. n -> BlockBytes] : n \in 0 .. MaxBlockLen}

InitRs ==
    \E data \in Blocks, ecLen \in 0 .. MaxEcLen :
        Helper("reedSolomonEncode()", <<data, ecLen>>)

CallReedSolomonEncode ==
    Returns("reedSolomonEncode()", reedSolomonEncode(args[1], args[2]), 2)

SpecRs == InitRs /\ [][CallReedSolomonEncode]_vars

\* getVersionInfo(version) for every 6-bit version number
MaxVersionNumber == 63

InitVersionInfo ==
    \E v \in 0 .. MaxVersionNumber : Helper("getVersionInfo()", <<v>>)

CallGetVersionInfo == Returns("getVersionInfo()", getVersionInfo(args[1]), 1)

SpecVersionInfo == InitVersionInfo /\ [][CallGetVersionInfo]_vars

\* encodeData(bytes, version, 1) as generateQrMatrix calls it, for a payload
\* of the smallest and of the largest length of every version; out records
\* the locals terminatorLen, dataBytes, blocksData and blocksEc next to the
\* array returned
EncodePayloads ==
    {AsciiPayload(capacities[v], 1) : v \in 1 .. MaxVersion}
        \cup {AsciiPayload(capacities[v] + 1, 2) : v \in 1 .. MaxVersion - 1}
        \cup {<<>>, Hello}

InitEncode ==
    \E data \in EncodePayloads :
        Helper("encodeData()", <<data, selectVersion(Len(data))>>)

encodeDataLocals(data, v) ==
    LET dataBytes == encodeDataBytes(data, v)
        split == splitBlocks(dataBytes, v)
    IN  [terminatorLen |-> terminatorLen(data, v),
         dataBytes |-> dataBytes,
         blocksData |-> split.blocksData,
         blocksEc |-> split.blocksEc,
         result |-> encodeData(data, v)]

CallEncodeData == Returns("encodeData()", encodeDataLocals(args[1], args[2]), 1)

SpecEncode == InitEncode /\ [][CallEncodeData]_vars

---------------------------------------------------------------------------
(* PaymentPoller.  A poller and the host it runs in are one record s; every *)
(* method below maps the record before the call to the record after it.    *)

TERMINAL_STATUSES ==
    {"CONFIRMED", "FAILED", "CANCELLED", "EXPIRED", "REFUNDED", "CHARGEBACK"}

\* String.prototype.toUpperCase on the status strings a backend sends
toUpperCase(str) ==
    CASE str = "pending" -> "PENDING"
      [] str = "confirmed" -> "CONFIRMED"
      [] str = "failed" -> "FAILED"
      [] OTHER -> str

\* data.status?.toUpperCase() || 'PENDING'
statusOf(data) ==
    IF data \in {"undefined", ""} THEN "PENDING" ELSE toUpperCase(data)

\* the poller and its host as one record
thisPoller ==
    [running |-> running, timer |-> timer, timeoutTimer |-> timeoutTimer,
     lastStatus |-> lastStatus, armed |-> armed, timers |-> timers,
     fetches |-> fetches, issued |-> issued, invoked |-> invoked,
     stopped |-> stopped]

\* setInterval / setTimeout: the host arms a timer that runs fn and returns
\* its handle, the next integer
setTimer(s, fn) ==
    [s EXCEPT !.timers = @ + 1,
              !.armed = @ \cup {[id |-> s.timers + 1, fn |-> fn]}]

\* clearInterval / clearTimeout: the timer with this handle is armed no more
clearTimer(s, handle) ==
    [s EXCEPT !.armed = {t \in @ : t.id # handle}]

\* this.config.onStatusChange / onComplete / onError is called
invoke(s, callback, value) ==
    [s EXCEPT !.invoked = Append(@, <<callback, value>>)]

\* stop()
stop(s) ==
    LET s1 == [s EXCEPT !.running = FALSE, !.stopped = TRUE]
        s2 == IF s1.timer # 0
              THEN [clearTimer(s1, s1.timer) EXCEPT !.timer = 0]
              ELSE s1
    IN  IF s2.timeoutTimer # 0
        THEN [clearTimer(s2, s2.timeoutTimer) EXCEPT !.timeoutTimer = 0]
        ELSE s2

\* poll() up to its await: if (!this.running) return; then fetchStatus() is
\* called and its promise is pending
poll(s) ==
    IF ~s.running
    THEN s
    ELSE [s EXCEPT !.fetches = @ + 1, !.issued = @ + 1]

\* poll() after its await, the promise fulfilled with data.status = data
pollFulfilled(s, data) ==
    LET status == statusOf(data)
        s1 == [s EXCEPT !.fetches = @ - 1]
        s2 == IF status # s1.lastStatus
              THEN invoke([s1 EXCEPT !.lastStatus = status],
                          "onStatusChange", status)
              ELSE s1
    IN  IF status \in TERMINAL_STATUSES
        THEN invoke(stop(s2), "onComplete", status)
        ELSE s2

\* poll() after its await, the promise rejected: the catch clause
pollRejected(s) ==
    invoke([s EXCEPT !.fetches = @ - 1], "onError", "error")

neverRunning(s) == FALSE

\* if (this.running) return;
alreadyRunning(s) == s.running

\* start()
start(s) ==
    IF alreadyRunning(s)
    THEN s
    ELSE LET s1 == [s EXCEPT !.running = TRUE, !.lastStatus = "null",
                             !.stopped = FALSE]
             s2 == poll(s1)
             s3 == [setTimer(s2, "poll") EXCEPT !.timer = s2.timers + 1]
         IN  [setTimer(s3, "timeout") EXCEPT !.timeoutTimer = s3.timers + 1]

\* the callback of the setTimeout of start()
onTimeout(s) ==
    invoke(invoke(stop(s), "onStatusChange", "EXPIRED"), "onComplete", "EXPIRED")

\* the poller and its host become the record s
PollerBecomes(s) ==
    /\ running' = s.running
    /\ timer' = s.timer
    /\ timeoutTimer' = s.timeoutTimer
    /\ lastStatus' = s.lastStatus
    /\ armed' = s.armed
    /\ timers' = s.timers
    /\ fetches' = s.fetches
    /\ issued' = s.issued
    /\ invoked' = s.invoked
    /\ stopped' = s.stopped
    /\ UNCHANGED <<pc, payload, locals, result, tables, calls, history, args, out,
                   widget, writes, secondsLeft, destroyed>>

\* the page calls at most MaxOps methods, the poller fetches at most
\* MaxFetches times, and a fetch resolves with one of Statuses
MaxOps == 4
MaxFetches == 3
Statuses == {"undefined", "pending", "PROCESSING", "confirmed", "FAILED"}

\* new PaymentPoller(config)
InitPoller ==
    /\ pc = "PaymentPoller"
    /\ payload = <<>>
    /\ Entry
    /\ Loaded
    /\ NoComponent
    /\ calls = 0
    /\ history = {}
    /\ args = <<>>
    /\ out = <<>>

\* the page calls start()
Start ==
    /\ pc = "PaymentPoller"
    /\ Len(ops) < MaxOps
    /\ alreadyRunning(thisPoller) \/ issued < MaxFetches
    /\ ops' = Append(ops, "start")
    /\ PollerBecomes(start(thisPoller))

\* the page calls stop()
Stop ==
    /\ pc = "PaymentPoller"
    /\ Len(ops) < MaxOps
    /\ ops' = Append(ops, "stop")
    /\ PollerBecomes(stop(thisPoller))

\* the interval timer fires: () => this.poll()
IntervalFires ==
    /\ pc = "PaymentPoller"
    /\ issued < MaxFetches
    /\ \E t \in armed : t.fn = "poll"
    /\ PollerBecomes(poll(thisPoller))
    /\ UNCHANGED ops

\* the timeout timer fires, once
TimeoutFires ==
    /\ pc = "PaymentPoller"
    /\ \E t \in armed :
        /\ t.fn = "timeout"
        /\ PollerBecomes(onTimeout([thisPoller EXCEPT !.armed = @ \ {t}]))
    /\ UNCHANGED ops

\* a pending fetchStatus() promise is fulfilled
FetchFulfilled ==
    /\ pc = "PaymentPoller"
    /\ fetches > 0
    /\ \E data \in Statuses : PollerBecomes(pollFulfilled(thisPoller, data))
    /\ UNCHANGED ops

\* a pending fetchStatus() promise is rejected
FetchRejected ==
    /\ pc = "PaymentPoller"
    /\ fetches > 0
    /\ PollerBecomes(pollRejected(thisPoller))
    /\ UNCHANGED ops

NextPoller ==
    \/ Start
    \/ Stop
    \/ IntervalFires
    \/ TimeoutFires
    \/ FetchFulfilled
    \/ FetchRejected

SpecPoller == InitPoller /\ [][NextPoller]_vars

---------------------------------------------------------------------------
(* createPixQrCode: the countdown, the copy button and destroy().  The      *)
(* variables the component closes over and its host are one record s.      *)

Max(a, b) == IF a > b THEN a ELSE b

\* the component and its host as one record; args holds config.copyPaste and
\* whether config.expiresAt is set
thisWidget ==
    [countdownInterval |-> countdownInterval, copyTimeout |-> copyTimeout,
     expired |-> expired, armed |-> armed, timers |-> timers,
     writes |-> writes, secondsLeft |-> secondsLeft, invoked |-> invoked,
     destroyed |-> destroyed, copyPaste |-> args[1], expiresAt |-> args[2]]

\* doCopy up to its await, had it not tested expired
doCopyWhenExpired(s) ==
    IF s.copyPaste = ""
    THEN s
    ELSE [s EXCEPT !.writes = @ + 1]

\* doCopy up to its await: if (!config.copyPaste || expired) return; then
\* navigator.clipboard.writeText is called and its promise is pending
doCopy(s) ==
    IF s.copyPaste = "" \/ s.expired
    THEN s
    ELSE [s EXCEPT !.writes = @ + 1]

\* the label shows "copied" for 3 seconds and onCopy is called: the end of
\* the try block and, after the fallback copy, of the catch block
showCopied(s) ==
    LET s1 == IF s.copyTimeout # 0 THEN clearTimer(s, s.copyTimeout) ELSE s
        s2 == [setTimer(s1, "copyLabel") EXCEPT !.copyTimeout = s1.timers + 1]
    IN  invoke(s2, "onCopy", "")

\* doCopy after its await, the promise fulfilled, or rejected and the
\* fallback copy made
doCopySettled(s) == showCopied([s EXCEPT !.writes = @ - 1])

\* doCopy where navigator.clipboard is undefined: the call throws inside the
\* try block and the catch block runs at once
doCopyThrown(s) ==
    IF s.copyPaste = "" \/ s.expired
    THEN s
    ELSE showCopied(s)

\* the callback of the countdown interval
onCountdown(s) ==
    LET diff == Max(0, s.secondsLeft)
    IN  IF diff = 0 /\ ~s.expired
        THEN LET s1 == [s EXCEPT !.expired = TRUE]
                 s2 == IF s1.countdownInterval # 0
                       THEN [clearTimer(s1, s1.countdownInterval)
                                EXCEPT !.countdownInterval = 0]
                       ELSE s1
             IN  invoke(s2, "onExpired", "")
        ELSE s

\* destroy()
destroy(s) ==
    LET s1 == IF s.countdownInterval # 0
              THEN clearTimer(s, s.countdownInterval)
              ELSE s
        s2 == IF s1.copyTimeout # 0 THEN clearTimer(s1, s1.copyTimeout) ELSE s1
    IN  [s2 EXCEPT !.destroyed = TRUE]

\* createPixQrCode(container, config), from the declaration of its variables
\* to its return
createPixQrCode(copyPaste, expiresAt, seconds) ==
    LET s == [countdownInterval |-> 0, copyTimeout |-> 0, expired |-> FALSE,
              armed |-> {}, timers |-> 0, writes |-> 0,
              secondsLeft |-> seconds, invoked |-> <<>>, destroyed |-> FALSE,
              copyPaste |-> copyPaste, expiresAt |-> expiresAt]
    IN  IF expiresAt
        THEN [setTimer(s, "countdown") EXCEPT !.countdownInterval = s.timers + 1]
        ELSE s

\* the component and its host are the record s
WidgetIs(s) ==
    /\ countdownInterval = s.countdownInterval
    /\ copyTimeout = s.copyTimeout
    /\ expired = s.expired
    /\ armed = s.armed
    /\ timers = s.timers
    /\ writes = s.writes
    /\ secondsLeft = s.secondsLeft
    /\ invoked = s.invoked
    /\ destroyed = s.destroyed

\* the component and its host become the record s
WidgetBecomes(s) ==
    /\ countdownInterval' = s.countdownInterval
    /\ copyTimeout' = s.copyTimeout
    /\ expired' = s.expired
    /\ armed' = s.armed
    /\ timers' = s.timers
    /\ writes' = s.writes
    /\ secondsLeft' = s.secondsLeft
    /\ invoked' = s.invoked
    /\ destroyed' = s.destroyed
    /\ UNCHANGED <<pc, payload, locals, result, tables, calls, history, args, out,
                   poller, fetches, issued, stopped>>

\* config.expiresAt is at most MaxSeconds seconds ahead (-1: it is past);
\* the code to copy is empty or not
MaxSeconds == 2
CopyPastes == {"", "00020126580014br.gov.bcb.pix"}

\* a component has been created and has returned its instance
InitPix ==
    /\ pc = "PixQrCode"
    /\ payload = <<>>
    /\ Entry
    /\ Loaded
    /\ calls = 0
    /\ history = {}
    /\ out = <<>>
    /\ running = FALSE
    /\ timer = 0
    /\ timeoutTimer = 0
    /\ lastStatus = "null"
    /\ fetches = 0
    /\ issued = 0
    /\ stopped = FALSE
    /\ ops = <<>>
    /\ \E copyPaste \in CopyPastes, expiresAt \in BOOLEAN, seconds \in -1 .. MaxSeconds :
        /\ args = <<copyPaste, expiresAt>>
        /\ WidgetIs(createPixQrCode(copyPaste, expiresAt, seconds))

\* the page calls copyToClipboard() or the copy button is clicked
CopyToClipboard ==
    /\ pc = "PixQrCode"
    /\ Len(ops) < MaxOps
    /\ ops' = Append(ops, "copyToClipboard")
    /\ \/ WidgetBecomes(doCopy(thisWidget))
       \/ WidgetBecomes(doCopyThrown(thisWidget))

\* a pending clipboard write settles
WriteSettles ==
    /\ pc = "PixQrCode"
    /\ writes > 0
    /\ WidgetBecomes(doCopySettled(thisWidget))
    /\ UNCHANGED ops

\* the 3 seconds of the copy label are over: the label is reset
CopyLabelFires ==
    /\ pc = "PixQrCode"
    /\ \E t \in armed :
        /\ t.fn = "copyLabel"
        /\ WidgetBecomes([thisWidget EXCEPT !.armed = @ \ {t}])
    /\ UNCHANGED ops

\* a second passes
SecondPasses ==
    /\ pc = "PixQrCode"
    /\ secondsLeft > -1
    /\ WidgetBecomes([thisWidget EXCEPT !.secondsLeft = @ - 1])
    /\ UNCHANGED ops

\* the countdown interval fires
CountdownFires ==
    /\ pc = "PixQrCode"
    /\ \E t \in armed : t.fn = "countdown"
    /\ WidgetBecomes(onCountdown(thisWidget))
    /\ UNCHANGED ops

\* the page calls destroy()
Destroy ==
    /\ pc = "PixQrCode"
    /\ Len(ops) < MaxOps
    /\ ops' = Append(ops, "destroy")
    /\ WidgetBecomes(destroy(thisWidget))

NextPix ==
    \/ CopyToClipboard
    \/ WriteSettles
    \/ CopyLabelFires
    \/ SecondPasses
    \/ CountdownFires
    \/ Destroy

SpecPix == InitPix /\ [][NextPix]_vars

---------------------------------------------------------------------------
(* Version selection and the size of the symbol.                           *)

\* C1: for every payload length L in 0..2331, selectVersion(L) is the
\* smallest version v in 1..40 whose capacity is at least L; lengths 0 and 14
\* give version 1, 15 gives version 2 and 2331 gives version 40.
SelectVersionIsMinimal ==
    (pc = "selectVersion()" /\ out # <<>> /\ args[1] <= 2331) =>
        LET L == args[1]
            v == out[1]
        IN  /\ v \in 1 .. 40
            /\ capacities[v] >= L
            /\ \A w \in 1 .. v - 1 : capacities[w] < L
            /\ (L \in {0, 14} => v = 1)
            /\ (L = 15 => v = 2)
            /\ (L = 2331 => v = 40)

\* selectVersion(15) has returned 2: 15 bytes are one more than version 1 holds
SelectVersionPastBoundary ==
    pc = "selectVersion()" /\ args = <<15>> /\ out = <<2>>

\* C2: a payload of more than 2331 bytes makes generateQrMatrix throw the
\* capacity error in its first statement, with no grid, reserved mask or
\* codewords created and no matrix returned; a payload of at most 2331 bytes
\* never makes it throw.
CapacityErrorBeforeAnyWork ==
    /\ Len(payload) > 2331 =>
            /\ pc \in {"selectVersion", "threw"}
            /\ grid = <<>> /\ reserved = <<>> /\ codewords = <<>>
            /\ result.matrix = <<>>
    /\ pc = "threw" => Len(payload) > 2331 /\ result = CapacityError
    /\ Len(payload) <= 2331 => pc # "threw" /\ ~result.threw

\* the call with 2332 bytes has thrown
CapacityErrorThrown ==
    pc = "threw" /\ Len(payload) = 2332 /\ result = CapacityError /\ grid = <<>>

\* C3: the grid of a call, and the matrix the call returns, is square with
\* version * 4 + 17 rows and columns, version being the version selected for
\* the payload: 21 for version 1, 177 for version 40.
MatrixSideIsVersionTimes4Plus17 ==
    LET side == selectVersion(Len(payload)) * 4 + 17
        square(m) == /\ DOMAIN m = 0 .. side - 1
                     /\ \A r \in DOMAIN m : DOMAIN m[r] = 0 .. side - 1
    IN  /\ version # 0 => version = selectVersion(Len(payload)) /\ size = side
        /\ grid # <<>> => square(grid) /\ square(reserved)
        /\ pc = "done" =>
                /\ square(result.matrix)
                /\ (version = 1 => GridLen(result.matrix) = 21)
                /\ (version = 40 => GridLen(result.matrix) = 177)

\* the call for 2331 bytes has returned a matrix of 177 rows
LargestMatrixReturned ==
    /\ pc = "done" /\ version = 40
    /\ GridLen(result.matrix) = 177 /\ GridLen(result.matrix[176]) = 177

---------------------------------------------------------------------------
(* Finder patterns, data placement and the mask.                           *)

\* the top-left corners of the three finder patterns
FinderOrigins(n) == {<<0, 0>>, <<n - 7, 0>>, <<0, n - 7>>}

\* the module of a finder pattern dr rows and dc columns from its corner
\* (-1 and 7 are the separator): the outer ring and the 3x3 core are dark
FinderDark(dr, dc) ==
    /\ dr \in 0 .. 6 /\ dc \in 0 .. 6
    /\ \/ dr \in {0, 6} \/ dc \in {0, 6}
       \/ dr \in 2 .. 4 /\ dc \in 2 .. 4

\* C4: once the finder patterns are placed, every cell of the three 7x7
\* patterns and of their separators inside the symbol is reserved and holds
\* the module placeFinder gave it, and the returned matrix holds the same
\* module there, whichever mask was selected.
FindersReservedAndNeverMasked ==
    pc \in {"placeAlignment", "placeTiming", "darkModule", "reserveFormat",
            "reserveVersion", "encodeData", "placeData", "selectBestMask",
            "applyMask", "placeFormatInfo", "placeVersionInfo", "return", "done"} =>
        \A o \in FinderOrigins(size) : \A dr \in -1 .. 7, dc \in -1 .. 7 :
            LET r == o[1] + dr
                c == o[2] + dc
            IN  (r \in 0 .. size - 1 /\ c \in 0 .. size - 1) =>
                    /\ reserved[r][c]
                    /\ grid[r][c] = Bool(FinderDark(dr, dc))
                    /\ pc = "done" => result.matrix[r][c] = FinderDark(dr, dc)

\* a matrix has been returned under mask 0, whose pattern covers the corner
\* module (0, 0) of a finder, and the corner is still dark
FinderKeptUnderMask0 ==
    /\ pc = "done" /\ bestMask = 0
    /\ shouldMask(0, 0, 0) /\ reserved[0][0] /\ result.matrix[0][0]

\* C5: for every version 1..40, when placeData has returned it has written
\* exactly 8 * totalCodewords(version) codeword bits, the whole codeword
\* stream, each into a cell that is not reserved and no two into one cell.
PlaceDataPlacesEveryBitOnce ==
    pc = "selectBestMask" =>
        LET cells == (0 .. size - 1) \X (0 .. size - 1)
            used == {rc \in cells : placedAt[rc[1]][rc[2]] # -1}
        IN  /\ Len(codewords) = getTotalCodewords(version)
            /\ placedBits = 8 * getTotalCodewords(version)
            /\ Cardinality(used) = placedBits
            /\ \A rc \in used :
                    /\ placedAt[rc[1]][rc[2]] \in 0 .. placedBits - 1
                    /\ ~reserved[rc[1]][rc[2]]

\* placeData has returned for version 40 with all 3706 * 8 bits placed
PlaceDataFilledVersion40 ==
    pc = "selectBestMask" /\ version = 40 /\ placedBits = 29648

\* the penalty of the grid under mask m
PenaltyUnder(m) == calcPenalty(applyMask(grid, reserved, m, size), size)

\* the lowest mask among those of minimal penalty, pens being the penalties
\* under masks 0..7 in that order
LowestMinimalMask(pens) ==
    CHOOSE m \in 0 .. 7 :
        /\ \A k \in 0 .. 7 : pens[m + 1] <= pens[k + 1]
        /\ \A k \in 0 .. m - 1 : pens[k + 1] > pens[m + 1]

---------------------------------------------------------------------------
(* GF(256) and Reed-Solomon.                                               *)

\* C7: for all a, b in 0..255, gfMul(a, b) is 0 when a or b is 0, and
\* equals gfMul(b, a).
GfMulZeroAndCommutative ==
    (pc = "gfMul()" /\ out # <<>>) =>
        LET a == args[1]
            b == args[2]
        IN  /\ out[1] = gfMul(b, a)
            /\ (a = 0 \/ b = 0) => out[1] = 0 /\ gfMul(a, 0) = 0 /\ gfMul(0, a) = 0

\* gfMul(0, 7) has returned 0
GfMulByZero == pc = "gfMul()" /\ args = <<0, 7>> /\ out = <<0>>

---------------------------------------------------------------------------
(* The round trip through a reader that follows ISO/IEC 18004.             *)

\* the number of 1 bits of a
RECURSIVE PopCount(_)
PopCount(a) == IF a = 0 THEN 0 ELSE (a % 2) + PopCount(a \div 2)

\* the remainder of the (15, 5) BCH code, generator 10100110111, from bit i on
RECURSIVE IsoFormatRemainder(_, _)
IsoFormatRemainder(rem, i) ==
    IF i < 0 THEN rem
    ELSE IsoFormatRemainder(
             IF BitAt(rem, i + 10) = 1 THEN Xor(rem, 1335 * Pow2(i)) ELSE rem,
             i - 1)

\* the format information of a level (its two bits: 1 L, 0 M, 3 Q, 2 H) and a
\* mask: five data bits, ten BCH bits, XORed with 101010000010010
IsoFormatCode(levelBits, mask) ==
    LET d == (levelBits * 8 + mask) * 1024
    IN  Xor(Or(d, IsoFormatRemainder(d, 4)), 21522)

\* where the symbol carries bit b of the format information (bit 14 the most
\* significant), as <<row, column>>: the copy around the top-left finder
\* and the copy split between the other two
IsoFormatCell(n, b, copy) ==
    IF copy = 1
    THEN IF b <= 5 THEN <<b, 8>>
         ELSE IF b = 6 THEN <<7, 8>>
         ELSE IF b = 7 THEN <<8, 8>>
         ELSE IF b = 8 THEN <<8, 7>>
         ELSE <<8, 14 - b>>
    ELSE IF b <= 7 THEN <<8, n - 1 - b>> ELSE <<n - 15 + b, 8>>

\* the 15-bit word a reader takes from one copy
RECURSIVE IsoFormatWord(_, _, _, _)
IsoFormatWord(m, n, copy, b) ==
    IF b > 14 THEN 0
    ELSE (IF m[IsoFormatCell(n, b, copy)[1]][IsoFormatCell(n, b, copy)[2]]
          THEN Pow2(b) ELSE 0) + IsoFormatWord(m, n, copy, b + 1)

\* the <<level bits, mask>> a reader decodes: those whose format information
\* is within the three bit errors the BCH code corrects of a word it read
IsoFormatDecoded(m, n) ==
    {f \in (0 .. 3) \X (0 .. 7) :
        \E copy \in {1, 2} :
            PopCount(Xor(IsoFormatCode(f[1], f[2]), IsoFormatWord(m, n, copy, 0))) <= 3}

\* the bits a reader takes from the modules that are not function modules
\* (fn), the mask removed: column pairs from the right, the timing column
\* skipped, the first pair upward and every next pair the other way, the
\* right module of a row before the left
IsoReadBits(m, fn, mask, n) ==
    LET body(bits, k) ==
            LET t == k \div (2 * n)
                right == IF n - 1 - 2 * t > 6 THEN n - 1 - 2 * t ELSE n - 2 - 2 * t
                vert == (k % (2 * n)) \div 2
                x == right - (k % 2)
                y == IF t % 2 = 0 THEN n - 1 - vert ELSE vert
            IN  IF fn[y][x] THEN bits
                ELSE Append(bits, IF m[y][x] # shouldMask(mask, y, x) THEN 1 ELSE 0)
    IN  For(body, <<>>, 0, ((n - 1) \div 2) * 2 * n)

\* the start of the bit stream of a byte-mode symbol for payload p: mode
\* 0100, the character count, the bytes
IsoSegmentBits(p, v) ==
    pushBits(pushBits(<<>>, 4, 4), Len(p), IF v <= 9 THEN 8 ELSE 16)
        \o [k \in 1 .. 8 * Len(p) |-> BitAt(p[((k - 1) \div 8) + 1], 7 - ((k - 1) % 8))]

\* the block, and the place in the data codewords, of the k-th codeword
\* (0-based) of the interleaved stream of a level M symbol; place -1 for an
\* error correction codeword
IsoCodewordPlace(v, k) ==
    LET numBlocks == getNumBlocks(v)
        dataCodewords == getTotalCodewords(v) - getEcCodewordsPerBlock(v) * numBlocks
        shortLen == dataCodewords \div numBlocks
        shortBlocks == numBlocks - (dataCodewords % numBlocks)
        block == IF k < shortLen * numBlocks THEN k % numBlocks
                 ELSE IF k < dataCodewords THEN shortBlocks + (k - shortLen * numBlocks)
                 ELSE (k - dataCodewords) % numBlocks
        index == IF k < shortLen * numBlocks THEN k \div numBlocks ELSE shortLen
    IN  [block |-> block,
         place |-> IF k >= dataCodewords THEN -1
                   ELSE block * shortLen
                        + (IF block > shortBlocks THEN block - shortBlocks ELSE 0)
                        + index]

\* What has to be the case for a reader to give back payload p from matrix
\* m (fn: the function modules of its version).  It decodes the format
\* information to level M and a mask; it removes that mask and reads the
\* codewords; Reed-Solomon decoding changes at most ec / 2 codewords of a
\* block, so of the codewords of a block that lie wholly inside the segment
\* of p at most ec / 2 are read wrongly.
IsoReaderCanReproduce(m, fn, p) ==
    LET n == GridLen(m)
        v == (n - 17) \div 4
        want == IsoSegmentBits(p, v)
        whole == Len(want) \div 8
    IN  \E f \in IsoFormatDecoded(m, n) :
            /\ f[1] = 0
            /\ LET bits == IsoReadBits(m, fn, f[2], n)
                   wrong(b) ==
                       {k \in 0 .. getTotalCodewords(v) - 1 :
                           LET at == IsoCodewordPlace(v, k)
                           IN  /\ at.block = b
                               /\ at.place \in 0 .. whole - 1
                               /\ byteOfBits(bits, 8 * k, 0, 0)
                                      # byteOfBits(want, 8 * at.place, 0, 0)}
               IN  \A b \in 0 .. getNumBlocks(v) - 1 :
                       Cardinality(wrong(b)) <= getEcCodewordsPerBlock(v) \div 2

\* the payloads of the round trip: "HELLO", 14 bytes (all version 1 holds)
\* and 63 bytes (version 5, two blocks)
RoundTripPayloads == {Hello, Boundary14, MultiBlock}

\* C9: a standards-compliant reader reproduces the payload from the matrix
\* returned for it, for "HELLO", for a 14-byte payload and for a payload of
\* version 5.
RoundTripReproducesPayload ==
    (pc = "done" /\ payload \in RoundTripPayloads) =>
        IsoReaderCanReproduce(result.matrix, reserved, payload)

\* the format information the encoder writes is the one ISO/IEC 18004 gives
\* for level M and the mask
FormatTableIsIso == \A mask \in 0 .. 7 : FORMAT_INFO[mask + 1] = IsoFormatCode(0, mask)

---------------------------------------------------------------------------
(* Calls one after another.                                                *)

---------------------------------------------------------------------------
(* PaymentPoller: stop() and start().                                      *)

\* C11: once stop() has been called and start() has not been called again,
\* no onStatusChange, onComplete or onError callback is invoked, even when a
\* fetchStatus promise issued before stop() settles after it.
NoCallbackAfterStop == [][stopped => invoked' = invoked]_vars

\* the timers of the poller that are armed and run fn
ArmedFor(fn) == {t \in armed : t.fn = fn}

\* C12: start() is a no-op while the poller is running (no fetch is issued,
\* no timer is armed, lastStatus is kept), and at every moment at most one
\* interval timer and at most one timeout timer are armed.
StartWhileRunningIsNoOp ==
    /\ [](pc = "PaymentPoller" =>
            /\ Cardinality(ArmedFor("poll")) <= 1
            /\ Cardinality(ArmedFor("timeout")) <= 1)
    /\ [][(running /\ ops' = Append(ops, "start")) =>
            /\ issued' = issued
            /\ fetches' = fetches
            /\ armed' = armed
            /\ timers' = timers
            /\ lastStatus' = lastStatus
            /\ running']_vars

StartedTwice ==
    /\ pc = "PaymentPoller"
    /\ ops = <<"start", "start">>
    /\ lastStatus = "PENDING"
    /\ Cardinality(ArmedFor("poll")) = 1
    /\ Cardinality(ArmedFor("timeout")) = 1

---------------------------------------------------------------------------
(* PixQrCode: destroy().                                                   *)

\* the page called copyToClipboard() after it had called destroy()
CopiedAfterDestroy ==
    \E i, j \in 1 .. Len(ops) :
        i < j /\ ops[i] = "destroy" /\ ops[j] = "copyToClipboard"

\* C13: after destroy() has returned, no countdown interval and no copy-label
\* timeout of the component is armed or becomes armed, and onExpired is not
\* called, whatever the order of destroy(), the countdown ticks and the
\* settling of a clipboard write that was pending when destroy() ran.
DestroyCleansUpTimers ==
    /\ []((pc = "PixQrCode" /\ destroyed /\ ~CopiedAfterDestroy) => armed = {})
    /\ [][(pc = "PixQrCode" /\ destroyed) => invoked' = invoked \/
            invoked'[Len(invoked')] # <<"onExpired", "">>]_vars

---------------------------------------------------------------------------
(* Data placement: the zigzag, the reserved cells.                         *)

\* the right columns of the column pairs of a symbol of side n: every second
\* column from n - 1 down to 8, then 5, 3 and 1
PairColumns(n) ==
    {col \in 1 .. n - 1 : IF col > 6 THEN col % 2 = 0 ELSE col % 2 = 1}

\* the pair scanned after the pair at col
PairAfter(col) == IF col = 8 THEN 5 ELSE col - 2

\* the cells of the pair at col that hold a codeword bit
PlacedInPair(col) ==
    {rc \in (0 .. size - 1) \X {col, col - 1} : placedAt[rc[1]][rc[2]] >= 0}

\* the pair at col was filled from the bottom row to the top row
ScannedUpward(col) ==
    \A a, b \in PlacedInPair(col) :
        a[1] < b[1] => placedAt[a[1]][a[2]] > placedAt[b[1]][b[2]]

\* the pair at col was filled from the top row to the bottom row
ScannedDownward(col) ==
    \A a, b \in PlacedInPair(col) :
        a[1] < b[1] => placedAt[a[1]][a[2]] < placedAt[b[1]][b[2]]

\* C14: placeData scans the rightmost column pair upward and every later pair
\* (column 6 skipped) in the direction opposite to the pair before it,
\* including the step from pair (8,7) to pair (5,4).
ZigzagAlternates ==
    pc = "selectBestMask" =>
        /\ ScannedUpward(size - 1)
        /\ \A col \in PairColumns(size) \ {1} :
                IF ScannedUpward(col)
                THEN ScannedDownward(PairAfter(col))
                ELSE ScannedDownward(col) /\ ScannedUpward(PairAfter(col))

---------------------------------------------------------------------------
(* The format information in the returned matrix.                          *)

\* the 15 cells of a strip of the returned matrix read as a number, the first
\* cell of the strip being the most significant bit
StripWord(strip) ==
    LET bit(i) == IF result.matrix[strip[i][1]][strip[i][2]] THEN 1 ELSE 0
    IN  bit(1) * 16384 + bit(2) * 8192 + bit(3) * 4096 + bit(4) * 2048
        + bit(5) * 1024 + bit(6) * 512 + bit(7) * 256 + bit(8) * 128
        + bit(9) * 64 + bit(10) * 32 + bit(11) * 16 + bit(12) * 8
        + bit(13) * 4 + bit(14) * 2 + bit(15)

\* the cells of a strip
StripCells(strip) == {strip[i] : i \in 1 .. 15}

\* the returned matrix holds the placed codeword bits masked with mask m
MatrixIsMaskedWith(m) ==
    \A r \in 0 .. size - 1, c \in 0 .. size - 1 :
        placedAt[r][c] >= 0 =>
            LET k == placedAt[r][c]
                bit == BitAt(codewords[(k \div 8) + 1], 7 - (k % 8)) = 1
            IN  result.matrix[r][c] = (bit # shouldMask(m, r, c))

\* C15: in the returned matrix both format strips hold, most significant bit
\* first in strip order, the 15 bits of FORMAT_INFO[m] for the mask m that was
\* applied to the data; the strips are equal bit for bit, each is 15 distinct
\* reserved cells, and they hold the entry of no other mask.
FormatStripsHoldAppliedMask ==
    (pc = "done" /\ ~result.threw) =>
        /\ bestMask \in 0 .. 7
        /\ MatrixIsMaskedWith(bestMask)
        /\ StripWord(hBits) = FORMAT_INFO[bestMask + 1]
        /\ StripWord(vBits(size)) = FORMAT_INFO[bestMask + 1]
        /\ \A i \in 1 .. 15 :
                result.matrix[hBits[i][1]][hBits[i][2]]
                    = result.matrix[vBits(size)[i][1]][vBits(size)[i][2]]
        /\ Cardinality(StripCells(hBits)) = 15
        /\ Cardinality(StripCells(vBits(size))) = 15
        /\ \A rc \in StripCells(hBits) \cup StripCells(vBits(size)) :
                reserved[rc[1]][rc[2]]
        /\ \A m \in (0 .. 7) \ {bestMask} :
                StripWord(hBits) # FORMAT_INFO[m + 1]

\* HELLO has been returned with mask 4 applied and 0x45F9 in the strips
FormatInfoOfMask4Returned ==
    /\ pc = "done"
    /\ payload = Hello
    /\ bestMask = 4
    /\ StripWord(hBits) = 17913
    /\ StripWord(vBits(size)) = 17913

---------------------------------------------------------------------------
(* Reserved cells under data placement and masking.                        *)

\* C16: a cell marked reserved stays reserved for the rest of the call, and
\* from the start of placeData to the return of applyMask no reserved cell
\* changes its grid value.
ReservedCellsKeepTheirValue ==
    [][/\ (reserved # <<>> /\ reserved' # <<>>) =>
            \A r \in 0 .. size - 1, c \in 0 .. size - 1 :
                reserved[r][c] => reserved'[r][c]
       /\ pc \in {"placeData", "selectBestMask", "applyMask"} =>
            \A r \in 0 .. size - 1, c \in 0 .. size - 1 :
                reserved[r][c] => grid'[r][c] = grid[r][c]]_vars

\* applyMask has returned, and a dark reserved cell that the mask formula
\* selects is still dark
ReservedCellKeptUnderMask ==
    /\ pc = "placeFormatInfo"
    /\ payload = Hello
    /\ \E c \in 0 .. size - 1 :
        /\ reserved[6][c]
        /\ shouldMask(bestMask, 6, c)
        /\ grid[6][c] = "true"

---------------------------------------------------------------------------
(* encodeData: the bit stream, the blocks, the interleaving.               *)

\* bits from (0-based) to from + count - 1 of a byte array, as a number
BitsOfBytes(bytes, from, count) ==
    LET body(acc, k) ==
            [value |-> 2 * acc.value + BitAt(bytes[(k \div 8) + 1], 7 - (k % 8))]
    IN  For(body, [value |-> 0], from, from + count).value

\* C17: for a payload of L bytes whose selected version is v, mode, count and
\* data fit the data capacity (4 + countBits + 8L <= 8 * dataCodewords, with
\* countBits 8 up to version 9 and 16 above), L fits in countBits bits, the
\* terminator has 0 to 4 bits, and the padded data array has exactly
\* totalCodewords - ecCodewordsPerBlock * numBlocks bytes.
DataFitsCapacity ==
    (pc = "encodeData()" /\ out # <<>>) =>
        LET L == Len(args[1])
            v == args[2]
            count == IF v <= 9 THEN 8 ELSE 16
            dataCodewords == getTotalCodewords(v) - getEcCodewordsPerBlock(v) * getNumBlocks(v)
        IN  /\ v \in 1 .. 40
            /\ 4 + count + 8 * L <= 8 * dataCodewords
            /\ L < Pow2(count)
            /\ BitsOfBytes(out[1].dataBytes, 0, 4) = 4
            /\ BitsOfBytes(out[1].dataBytes, 4, count) = L
            /\ \A k \in 1 .. L :
                    BitsOfBytes(out[1].dataBytes, 4 + count + 8 * (k - 1), 8) = args[1][k]
            /\ out[1].terminatorLen \in 0 .. 4
            /\ Len(out[1].dataBytes) = dataCodewords

\* encodeData has returned for the longest payload of version 40, whose
\* length needs the 16-bit count
LongestPayloadEncoded ==
    /\ pc = "encodeData()"
    /\ out # <<>>
    /\ Len(args[1]) = 2331
    /\ args[2] = 40
    /\ out[1].terminatorLen = 4
    /\ Len(out[1].dataBytes) = 2334


\* the blocks one after the other
Flatten(blocks) ==
    LET body(acc, b) == acc \o blocks[b + 1]
    IN  For(body, <<>>, 0, Len(blocks))

\* C18: encodeData splits the data codewords into numBlocks contiguous blocks
\* that cover the array once and in order; with dataCodewords = q * numBlocks
\* + r the first numBlocks - r blocks have q codewords and the other r blocks
\* q + 1, and no block is empty.
BlocksPartitionDataCodewords ==
    (pc = "encodeData()" /\ out # <<>>) =>
        LET v == args[2]
            blocks == out[1].blocksData
            numBlocks == getNumBlocks(v)
            q == Len(out[1].dataBytes) \div numBlocks
            r == Len(out[1].dataBytes) % numBlocks
        IN  /\ Len(blocks) = numBlocks
            /\ Flatten(blocks) = out[1].dataBytes
            /\ \A b \in 1 .. numBlocks :
                    /\ Len(blocks[b]) = (IF b <= numBlocks - r THEN q ELSE q + 1)
                    /\ Len(blocks[b]) > 0

\* encodeData has returned for version 8, which has two blocks of 38 and two
\* of 39 data codewords
MixedBlocksEncoded ==
    /\ pc = "encodeData()"
    /\ out # <<>>
    /\ args[2] = 8
    /\ Len(args[1]) = capacities[8]
    /\ Len(out[1].blocksData) = 4
    /\ Len(out[1].blocksData[2]) = 38
    /\ Len(out[1].blocksData[3]) = 39


\* how many codewords of the blocks have an index below i
CodewordsBelow(blocks, i) ==
    LET body(acc, c) == [n |-> acc.n + Min(i, Len(blocks[c + 1]))]
    IN  For(body, [n |-> 0], 0, Len(blocks)).n

\* how many pairs (j, c) of an index and a block having that index are
\* lexicographically smaller than (i, b): the place (0-based) of codeword i of
\* block b in the interleaving of the blocks
InterleavedPlace(blocks, starts, i, b) ==
    starts[i] + Cardinality({c \in 1 .. b - 1 : Len(blocks[c]) > i})

\* stream holds, from offset on, the interleaving of the blocks
IsInterleaving(stream, offset, blocks) ==
    LET longest == maxLen(blocks, 1)
        starts == [i \in 0 .. longest |-> CodewordsBelow(blocks, i)]
        pairs == UNION {{<<i, b>> : i \in 0 .. Len(blocks[b]) - 1} : b \in 1 .. Len(blocks)}
        places == {InterleavedPlace(blocks, starts, p[1], p[2]) : p \in pairs}
    IN  /\ places = 0 .. starts[longest] - 1
        /\ Cardinality(pairs) = starts[longest]
        /\ \A p \in pairs :
                stream[offset + InterleavedPlace(blocks, starts, p[1], p[2]) + 1]
                    = blocks[p[2]][p[1] + 1]

\* C19: the array encodeData returns has totalCodewords(version) bytes: first
\* the data codewords of all blocks, codeword i of block b before codeword j
\* of block c exactly when (i, b) is lexicographically smaller than (j, c),
\* then the EC codewords in the same order, every codeword exactly once.
StreamIsInterleavingOfBlocks ==
    (pc = "encodeData()" /\ out # <<>>) =>
        LET v == args[2]
            dataCount == Len(out[1].dataBytes)
        IN  /\ Len(out[1].result) = getTotalCodewords(v)
            /\ Len(out[1].blocksEc) = getNumBlocks(v)
            /\ \A b \in 1 .. getNumBlocks(v) :
                    Len(out[1].blocksEc[b]) = getEcCodewordsPerBlock(v)
            /\ dataCount + getNumBlocks(v) * getEcCodewordsPerBlock(v)
                    = getTotalCodewords(v)
            /\ IsInterleaving(out[1].result, 0, out[1].blocksData)
            /\ IsInterleaving(out[1].result, dataCount, out[1].blocksEc)

\* encodeData has returned the 3706 codewords of version 40, 49 blocks
Version40Interleaved ==
    /\ pc = "encodeData()"
    /\ out # <<>>
    /\ args[2] = 40
    /\ Len(out[1].blocksData) = 49
    /\ Len(out[1].result) = 3706
    /\ out[1].result[2] = out[1].blocksData[2][1]

---------------------------------------------------------------------------
(* Reed-Solomon: the remainder.  The field GF(256) of ISO/IEC 18004 is     *)
(* computed here without the tables of the program: bytes are polynomials  *)
(* over GF(2) modulo x^8 + x^4 + x^3 + x^2 + 1 (0x11D).                    *)

\* x times a
FieldDouble(a) == IF 2 * a >= 256 THEN Xor(2 * a, 285) ELSE 2 * a

\* a times b
RECURSIVE FieldMul(_, _)
FieldMul(a, b) ==
    IF b = 0 THEN 0
    ELSE Xor(IF b % 2 = 1 THEN a ELSE 0, FieldMul(FieldDouble(a), b \div 2))

\* x to the power i, the element the program calls exp[i]
RECURSIVE FieldExp(_)
FieldExp(i) == IF i = 0 THEN 1 ELSE FieldDouble(FieldExp(i - 1))

\* the value at x of the polynomial with these coefficients, highest first
FieldEval(coeffs, x) ==
    LET horner(acc, k) == [value |-> Xor(FieldMul(acc.value, x), coeffs[k + 1])]
    IN  For(horner, [value |-> 0], 0, Len(coeffs)).value

\* C20: reedSolomonEncode(data, ecLen) returns the remainder of data(x) *
\* x^ecLen by g(x) = (x - exp[0]) ... (x - exp[ecLen - 1]): ecLen bytes, and
\* data followed by them is a polynomial with the root exp[i] for every i in
\* 0 .. ecLen - 1.
ReedSolomonIsRemainder ==
    (pc = "reedSolomonEncode()" /\ out # <<>>) =>
        /\ Len(out[1]) = args[2]
        /\ \A k \in 1 .. Len(out[1]) : out[1][k] \in 0 .. 255
        /\ \A i \in 0 .. args[2] - 1 :
                /\ GF_EXP[i] = FieldExp(i)
                /\ FieldEval(args[1] \o out[1], FieldExp(i)) = 0

\* reedSolomonEncode has returned 10 bytes, not all zero, for a 3-byte block
ReedSolomonTenBytes ==
    /\ pc = "reedSolomonEncode()"
    /\ out # <<>>
    /\ args = << <<72, 1, 255>>, 10 >>
    /\ Len(out[1]) = 10
    /\ \E k \in 1 .. 10 : out[1][k] # 0

---------------------------------------------------------------------------
(* The GF(256) tables.                                                     *)

\* C21: after initialization exp[0..254] are pairwise distinct values in
\* 1..255, exp[log[a]] = a for every a in 1..255, exp[i + 255] = exp[i] for
\* every i in 0..256, and for nonzero a, b the index log[a] + log[b] that
\* gfMul reads is at most 508, inside the 512-entry table.  The pair (a, b)
\* of the call ranges over all pairs of bytes, and serves as the pair of
\* indices and as the pair of factors.
GfTablesAreExpAndLog ==
    pc = "gfMul()" =>
        LET a == args[1]
            b == args[2]
        IN  /\ DOMAIN GF_EXP = 0 .. 511
            /\ DOMAIN GF_LOG = 0 .. 255
            /\ a <= 254 => GF_EXP[a] \in 1 .. 255
            /\ (a <= 254 /\ b <= 254 /\ a # b) => GF_EXP[a] # GF_EXP[b]
            /\ a >= 1 => (GF_LOG[a] \in 0 .. 254 /\ GF_EXP[GF_LOG[a]] = a)
            /\ GF_EXP[a + 255] = GF_EXP[a]
            /\ GF_EXP[a + 256] = GF_EXP[a + 1]
            /\ (a >= 1 /\ b >= 1) =>
                    /\ GF_LOG[a] + GF_LOG[b] <= 508
                    /\ GF_LOG[a] + GF_LOG[b] \in DOMAIN GF_EXP

\* gfMul has returned for the two factors whose logarithms add up to 508
GfMulReadLastIndex ==
    /\ pc = "gfMul()"
    /\ out # <<>>
    /\ args[1] >= 1
    /\ args[2] >= 1
    /\ GF_LOG[args[1]] + GF_LOG[args[2]] = 508
    /\ out[1] = GF_EXP[508]

---------------------------------------------------------------------------
(* Timing and alignment patterns.                                          *)

\* C22: in the returned matrix, for every i in 8 .. size - 9, the cells
\* (6, i) and (i, 6) are dark exactly when i is even, also where an alignment
\* pattern centred on row 6 or column 6 was drawn first and the timing loop
\* skipped the cell.
TimingAlternates ==
    (pc = "done" /\ ~result.threw) =>
        \A i \in 8 .. size - 9 :
            /\ result.matrix[6][i] = (i % 2 = 0)
            /\ result.matrix[i][6] = (i % 2 = 0)
            /\ reserved[6][i]
            /\ reserved[i][6]

\* version 7 has been returned: the alignment pattern centred at (6, 22) was
\* drawn (its light ring at (5, 22) is reserved and no data cell) and its
\* row 6 continues the timing pattern
TimingThroughAlignment ==
    /\ pc = "done"
    /\ version = 7
    /\ reserved[5][22]
    /\ placedAt[5][22] = -1
    /\ ~result.matrix[5][22]
    /\ result.matrix[6][22]
    /\ ~result.matrix[6][21]
    /\ result.matrix[6][20]


\* the 25 cells of the alignment pattern centred at rc
Footprint(rc) == {<<rc[1] + dr, rc[2] + dc>> : dr \in -2 .. 2, dc \in -2 .. 2}

\* C23: for a version with n >= 2 alignment coordinates exactly n * n - 3
\* alignment patterns are drawn: the centres skipped are the three whose 5x5
\* footprint overlaps a finder pattern (the 8x8 corner of a finder and its
\* separator), no two drawn patterns overlap, a drawn pattern has all 25
\* cells written and reserved, nothing is written for a skipped centre, and
\* version 1 has none.  Stated of the grid when the patterns have been placed.
AlignmentPatternsDrawn ==
    pc = "placeTiming" =>
        LET pos == getAlignmentPositions(version)
            n == Len(pos)
            centres == {<<pos[i], pos[j]>> : i \in 1 .. n, j \in 1 .. n}
            inFinder(r, c) ==
                \/ r <= 7 /\ c <= 7
                \/ r <= 7 /\ c >= size - 8
                \/ r >= size - 8 /\ c <= 7
            overlapsFinder(rc) == \E cell \in Footprint(rc) : inFinder(cell[1], cell[2])
            drawn(rc) ==
                \A cell \in Footprint(rc) :
                    /\ reserved[cell[1]][cell[2]]
                    /\ grid[cell[1]][cell[2]] =
                        (IF Max(Abs(cell[1] - rc[1]), Abs(cell[2] - rc[2])) = 1
                         THEN "false" ELSE "true")
            drawnCentres == {rc \in centres : drawn(rc)}
            covered == UNION {Footprint(rc) : rc \in drawnCentres}
        IN  /\ (version = 1) = (n = 0)
            /\ Cardinality(centres) = n * n
            /\ n >= 2 => Cardinality(drawnCentres) = n * n - 3
            /\ n >= 2 => centres \ drawnCentres =
                            {<<6, 6>>, <<6, pos[n]>>, <<pos[n], 6>>}
            /\ \A rc \in centres : drawn(rc) = ~overlapsFinder(rc)
            /\ Cardinality(covered) = 25 * Cardinality(drawnCentres)
            /\ \A r \in 0 .. size - 1, c \in 0 .. size - 1 :
                    IF inFinder(r, c) THEN reserved[r][c] /\ grid[r][c] # "null"
                    ELSE <<r, c>> \notin covered =>
                            (~reserved[r][c] /\ grid[r][c] = "null")

\* the alignment patterns of version 7 have been placed: the one centred at
\* (22, 22) is there, the one at (6, 38) next to the finder is not
AlignmentsOfVersion7Placed ==
    /\ pc = "placeTiming"
    /\ version = 7
    /\ grid[22][22] = "true"
    /\ grid[21][22] = "false"
    /\ reserved[20][20]
    /\ ~reserved[4][36]

---------------------------------------------------------------------------
(* Version information.                                                    *)

\* the product of the polynomials q (6 bits) and gen over GF(2)
Gf2Product(q, gen) ==
    LET body(acc, k) ==
            [value |-> IF BitAt(q, k) = 1 THEN Xor(acc.value, gen * Pow2(k))
                       ELSE acc.value]
    IN  For(body, [value |-> 0], 0, 6).value

\* C24: for every version v in 7..40, getVersionInfo(v) is an 18-bit value
\* whose bits 17..12 are v and which is a multiple of the generator 0x1F25
\* over GF(2): its low 12 bits are the remainder of v * x^12.
VersionInfoIsBchCodeword ==
    (pc = "getVersionInfo()" /\ out # <<>> /\ args[1] \in 7 .. 40) =>
        /\ out[1] \in 0 .. 262143
        /\ out[1] \div 4096 = args[1]
        /\ \E q \in 0 .. 63 : Gf2Product(q, 7973) = out[1]

\* getVersionInfo(7) has returned 0x07C94
VersionInfoOf7 ==
    /\ pc = "getVersionInfo()"
    /\ args = <<7>>
    /\ out = <<31892>>


\* the two cells of bit i of the version information
VersionCells(i) ==
    {<<i \div 3, size - 11 + (i % 3)>>, <<size - 11 + (i % 3), i \div 3>>}

\* what the returned matrix holds in a cell that placeData filled: the
\* codeword bit placed there, or the light filler, under the applied mask
MaskedDataAt(r, c) ==
    LET k == placedAt[r][c]
        bit == IF k >= 0
               THEN BitAt(codewords[(k \div 8) + 1], 7 - (k % 8)) = 1
               ELSE FALSE
    IN  bit # shouldMask(bestMask, r, c)

\* C25: for versions >= 7 the returned matrix holds bit i of the version
\* information, i in 0..17, at (floor(i/3), size - 11 + i mod 3) and at the
\* transposed cell; the 36 cells are reserved and neither data placement nor
\* masking has written them.  For versions < 7 none of these cells is
\* reserved or holds version information: they hold masked data.
VersionInfoPlaced ==
    /\ (pc = "placeVersionInfo" /\ version >= 7) =>
            \A i \in 0 .. 17 : \A rc \in VersionCells(i) :
                /\ reserved[rc[1]][rc[2]]
                /\ placedAt[rc[1]][rc[2]] = -1
                /\ grid[rc[1]][rc[2]] = "null"
    /\ (pc = "done" /\ ~result.threw) =>
            \A i \in 0 .. 17 : \A rc \in VersionCells(i) :
                IF version >= 7
                THEN /\ reserved[rc[1]][rc[2]]
                     /\ result.matrix[rc[1]][rc[2]]
                            = (BitAt(getVersionInfo(version), i) = 1)
                ELSE /\ ~reserved[rc[1]][rc[2]]
                     /\ result.matrix[rc[1]][rc[2]] = MaskedDataAt(rc[1], rc[2])

\* version 7 has been returned with 0x07C94 in its version blocks
VersionInfoOf7Returned ==
    /\ pc = "done"
    /\ version = 7
    /\ ~result.matrix[0][34]
    /\ result.matrix[0][36]
    /\ result.matrix[36][0]
    /\ result.matrix[4][34]
    /\ ~result.matrix[5][34]


\* the bit placeData put in a cell, before any mask: the codeword bit placed
\* there, or the light filler
DataAt(r, c) ==
    LET k == placedAt[r][c]
    IN  IF k >= 0 THEN BitAt(codewords[(k \div 8) + 1], 7 - (k % 8)) = 1
        ELSE FALSE

\* C26: selectBestMask tries every candidate on a copy: the step that calls
\* it leaves the grid and the reserved mask cell for cell as they were, so
\* that the grid applyMask leaves behind is the unmasked data with the
\* selected mask applied once.
SelectBestMaskLeavesGrid ==
    /\ [][pc = "selectBestMask" => (grid' = grid /\ reserved' = reserved)]_vars
    /\ [](pc = "placeFormatInfo" =>
            \A r \in 0 .. size - 1, c \in 0 .. size - 1 :
                ~reserved[r][c] =>
                    grid[r][c] = Bool(DataAt(r, c) # shouldMask(bestMask, r, c)))

\* selectBestMask has returned a mask other than 0, and a cell that
\* candidate 0 flips still holds its data bit
CandidateLeftNoTrace ==
    /\ pc = "applyMask"
    /\ bestMask # 0
    /\ \E r \in 0 .. size - 1, c \in 0 .. size - 1 :
            /\ ~reserved[r][c]
            /\ shouldMask(0, r, c)
            /\ grid[r][c] = Bool(DataAt(r, c))


----------------------------------------------------------------------------
(* The penalty score.                                                      *)

\* the length of the maximal run of equal cells that starts at a, or 0 when no
\* maximal run starts there
RunFrom(line, n, a) ==
    IF a > 0 /\ line[a - 1] = line[a] THEN 0
    ELSE LET b == CHOOSE k \in a .. n - 1 :
                      /\ \A j \in a .. k : line[j] = line[a]
                      /\ (k = n - 1 \/ line[k + 1] # line[a])
         IN  b - a + 1

\* 3 + (n - 5) for every maximal run of n >= 5 cells of the line
RunScore(line, n) ==
    LET body(st, a) ==
            LET len == RunFrom(line, n, a)
            IN  [sum |-> st.sum + (IF len >= 5 THEN 3 + (len - 5) ELSE 0)]
    IN  For(body, [sum |-> 0], 0, n).sum

\* the score of a grid by runs and by its share of dark cells
ScoreOf(g, n) ==
    LET byRow(st, r) == [sum |-> st.sum + RunScore(g[r], n)]
        byCol(st, c) == [sum |-> st.sum + RunScore([r \in 0 .. n - 1 |-> g[r][c]], n)]
        runs == For(byCol, For(byRow, [sum |-> 0], 0, n), 0, n).sum
        dark == Cardinality({rc \in (0 .. n - 1) \X (0 .. n - 1) :
                                 g[rc[1]][rc[2]] = "true"})
        \* floor(|100 * dark / (n * n) - 50| / 5)
        steps == Abs(100 * dark - 50 * n * n) \div (5 * n * n)
    IN  runs + 10 * steps

----------------------------------------------------------------------------
(* Unset cells.                                                            *)

\* C28: no cell is unset when the grid is turned into booleans: once
\* placeData has run every non-reserved cell is dark or light, once
\* placeFormatInfo and placeVersionInfo have run every cell is, and so every
\* light module of the returned matrix is a cell that was set to light.
NoCellLeftUnset ==
    /\ pc = "selectBestMask" =>
            \A r \in 0 .. size - 1, c \in 0 .. size - 1 :
                ~reserved[r][c] => grid[r][c] \in {"true", "false"}
    /\ pc = "return" =>
            \A r \in 0 .. size - 1, c \in 0 .. size - 1 :
                grid[r][c] \in {"true", "false"}
    /\ (pc = "done" /\ ~result.threw) =>
            \A r \in 0 .. size - 1, c \in 0 .. size - 1 :
                ~result.matrix[r][c] => grid[r][c] = "false"

\* a matrix with version areas has been returned in which placeData had run
\* out of codeword bits, with a light filler module and a light module of
\* the version information
FillerAndVersionCellsSet ==
    /\ pc = "done"
    /\ version >= 7
    /\ \E r \in 0 .. size - 1, c \in 0 .. size - 1 :
            ~reserved[r][c] /\ placedAt[r][c] = -1 /\ ~result.matrix[r][c]
    /\ \E r \in 0 .. 5, c \in size - 11 .. size - 9 :
            reserved[r][c] /\ ~result.matrix[r][c]


----------------------------------------------------------------------------
(* PaymentPoller: onComplete.                                              *)

\* the number of invocations of onComplete so far
Completions ==
    Cardinality({i \in 1 .. Len(invoked) : invoked[i][1] = "onComplete"})

\* the number of start() calls so far
Starts == Cardinality({i \in 1 .. Len(ops) : ops[i] = "start"})

\* C29: between one start() and the next, onComplete is invoked at most once,
\* however overlapping fetchStatus completions and the polling timeout
\* interleave; hence at every moment onComplete has been invoked at most as
\* many times as start() has been called.
CompleteAtMostOncePerStart ==
    pc = "PaymentPoller" => Completions <= Starts


----------------------------------------------------------------------------
(* PixQrCode: expiry.                                                      *)

\* the number of invocations of onExpired so far
Expirations ==
    Cardinality({i \in 1 .. Len(invoked) : invoked[i][1] = "onExpired"})

\* C30: a PixQrCode with expiresAt set invokes onExpired at most once; the
\* tick that invokes it clears the countdown interval; and a copyToClipboard()
\* call made after that tick starts no clipboard write and invokes no onCopy.
ExpiryIsFinal ==
    /\ []((pc = "PixQrCode" /\ args[2]) => Expirations <= 1)
    /\ [][(pc = "PixQrCode" /\ args[2] /\ invoked' # invoked
            /\ invoked'[Len(invoked')] = <<"onExpired", "">>) =>
                /\ {t \in armed' : t.fn = "countdown"} = {}
                /\ countdownInterval' = 0]_vars
    /\ [][(pc = "PixQrCode" /\ args[2] /\ Expirations = 1
            /\ ops' = Append(ops, "copyToClipboard")) =>
                /\ writes' = writes
                /\ invoked' = invoked
                /\ armed' = armed]_vars

\* copyToClipboard() has been called, with a code to copy, after the component
\* expired: nothing was written and only onExpired has been invoked
CopiedAfterExpiry ==
    /\ pc = "PixQrCode"
    /\ args[2]
    /\ args[1] # ""
    /\ expired
    /\ ops = <<"copyToClipboard">>
    /\ writes = 0
    /\ invoked = << <<"onExpired", "">> >>
    /\ armed = {}

===========================================================================
